---- MODULE Spec2Model ----
(***************************************************************************)
(* Model of the airline event-sourced core: the Ticket aggregate and its   *)
(* state machine, the command services, the permission table, the          *)
(* attestation chain, event replay and the regulation engine.              *)
(*                                                                         *)
(* Each component has its own specification (SpecTicket, SpecLive,         *)
(* SpecAuth, SpecChain, SpecReplay, SpecReg, SpecFlight, SpecAttest) over  *)
(* the shared variables;                                                   *)
(* a component that a specification does not exercise stays at its idle    *)
(* value.                                                                  *)
(***************************************************************************)
EXTENDS Integers, Sequences, FiniteSets, TLC

VARIABLES
    ticket,        \* the archived (state-machine) Ticket aggregate instance
    lastCall,      \* the last call made on it or on a command service, with its outcome
    liveTicket,    \* the Ticket of src/domain/ticket/model.py
    liveLast,      \* the last call made on liveTicket
    permissions,   \* the module-level PERMISSIONS table
    authCall,      \* the last assert_authorized call and its outcome
    stream,        \* a stored per-aggregate event stream (EventRecords)
    chainCall,     \* the last operation on the stream and verify_event_chain's outcome
    writers,       \* uncoordinated writers' local state (the hash each has read)
    replayCall,    \* the last Ticket.rehydrate call: its input and its outcome
    regCall,       \* the last RegulatoryEngine.evaluate call: its input and its outcome
    flightObj,     \* a Flight value (of either Flight class)
    flightCall,    \* the last two operations on it, with the values they were given
    attCall,       \* the last two Attestation.compute calls, with their results
    euCall,        \* the last call of EU261Cancellation's applies_to and evaluate
    raceTicket,    \* a Ticket instance that two callers hold
    callers,       \* each caller's position in its transition method call
    exclusive,     \* whether the callers keep to one mutator at a time
    logs,          \* EventRepository's log files: flight id -> lines
    repoCall,      \* the last EventRepository call, with what it was given
    genCall        \* the last replay() call: its input and what it yielded

vars == <<ticket, lastCall, liveTicket, liveLast, permissions, authCall,
          stream, chainCall, writers, replayCall, regCall,
          flightObj, flightCall, attCall, euCall, raceTicket, callers,
          exclusive, logs, repoCall, genCall>>

ticketVars == <<ticket, lastCall>>
liveVars   == <<liveTicket, liveLast>>
authVars   == <<permissions, authCall>>
chainVars  == <<stream, chainCall, writers>>
replayVars == <<replayCall>>
regVars    == <<regCall>>
flightVars == <<flightObj, flightCall>>
attVars    == <<attCall>>
euVars     == <<euCall>>
raceVars   == <<raceTicket, callers, exclusive>>
repoVars   == <<logs, repoCall>>
genVars    == <<genCall>>

(***************************************************************************)
(* Bounds of the model.                                                    *)
(***************************************************************************)
MaxTime == 2

Times == 1..MaxTime

\* A clock reading: the instant and whether it carries a timezone.
Readings == [t : Times, aware : BOOLEAN]

NoReading == [t |-> 0, aware |-> FALSE]

(***************************************************************************)
(* Authority roles.                                                        *)
(***************************************************************************)
AuthorityRole ==
    {"SYSTEM", "PASSENGER", "CHECKIN_AGENT", "GATE_AGENT",
     "FLIGHT_OPS", "CAPTAIN", "SECURITY", "FINANCE"}

(***************************************************************************)
(* The ticket state machine.                                               *)
(***************************************************************************)
TicketStates == {"ISSUED", "PAID", "CHECKED_IN", "BOARDED", "CLOSED"}

TICKET_STATES_SkipAllowed ==
    [s \in TicketStates |->
        CASE s = "ISSUED"     -> {"PAID", "CHECKED_IN"}
          [] s = "PAID"       -> {"CHECKED_IN"}
          [] s = "CHECKED_IN" -> {"BOARDED"}
          [] s = "BOARDED"    -> {"CLOSED"}
          [] OTHER            -> {}]

\* A table with an edge back from BOARDED to PAID.
TICKET_STATES_BackEdge ==
    [s \in TicketStates |->
        CASE s = "ISSUED"     -> {"PAID"}
          [] s = "PAID"       -> {"CHECKED_IN"}
          [] s = "CHECKED_IN" -> {"BOARDED"}
          [] s = "BOARDED"    -> {"CLOSED", "PAID"}
          [] OTHER            -> {}]

TICKET_STATES ==
    [s \in TicketStates |->
        CASE s = "ISSUED"     -> {"PAID"}
          [] s = "PAID"       -> {"CHECKED_IN"}
          [] s = "CHECKED_IN" -> {"BOARDED"}
          [] s = "BOARDED"    -> {"CLOSED"}
          [] OTHER            -> {}]

\* StateMachine.can_transition: to_state in transitions.get(from_state, set())
can_transition(from_state, to_state) ==
    to_state \in (IF from_state \in DOMAIN TICKET_STATES
                  THEN TICKET_STATES[from_state] ELSE {})

\* An assert_transition that lets everything through.
assert_transition_Lenient(from_state, to_state) == "ok"

\* StateMachine.assert_transition: the exception raised, or "ok"
assert_transition(from_state, to_state) ==
    IF can_transition(from_state, to_state) THEN "ok" ELSE "InvalidStateTransition"

(***************************************************************************)
(* Strings that the code tests for blankness are sequences of characters.  *)
(***************************************************************************)
\* str.strip() of a string of spaces and letters: drop leading and trailing spaces
RECURSIVE LStrip(_)
LStrip(s) == IF s # <<>> /\ Head(s) = " " THEN LStrip(Tail(s)) ELSE s

RECURSIVE RStrip(_)
RStrip(s) ==
    IF s # <<>> /\ s[Len(s)] = " " THEN RStrip(SubSeq(s, 1, Len(s) - 1)) ELSE s

strip(s) == RStrip(LStrip(s))

\* `not s or not s.strip()`
IsBlank(s) == s = <<>> \/ strip(s) = <<>>

PassengerIds == {<<>>, <<" ">>, <<"p", "1">>}
FlightIds == {"FL-1", "FL-2"}
TicketNumbers == {"TCK-1"}
FlightStatus == {"SCHEDULED", "DELAYED", "DEPARTED", "ARRIVED", "CANCELLED"}

(***************************************************************************)
(* The Ticket aggregate (state-machine version).                           *)
(***************************************************************************)
NoTicket ==
    [state |-> "none", ticket_number |-> "none", flight_id |-> "none",
     passenger_id |-> <<>>, issued_at |-> NoReading,
     last_state_change_at |-> NoReading]

\* The last call: entered lists the states the ticket's successful transitions
\* have entered so far; flight_id is the command's, flight the Flight passed to
\* IssueTicketService.execute, issuable the outcome of assert_ticket_issuable
\* ("none" where the call does not reach it)
NoFlightArg == [flight_id |-> "none", status |-> "none"]

NoCall ==
    [op |-> "none", role |-> "none", from |-> "none", now |-> NoReading,
     result |-> "none", flight_id |-> "none", flight |-> NoFlightArg,
     issuable |-> "none", entered |-> <<>>]

\* Ticket.issue: [result, ticket]
Ticket_issue(ticket_number, flight_id, passenger_id, now) ==
    IF ~now.aware
    THEN [result |-> "InvariantViolation", ticket |-> NoTicket]
    ELSE IF IsBlank(passenger_id)
    THEN [result |-> "InvariantViolation", ticket |-> NoTicket]
    ELSE [result |-> "ok",
          ticket |-> [state |-> "ISSUED", ticket_number |-> ticket_number,
                      flight_id |-> flight_id, passenger_id |-> passenger_id,
                      issued_at |-> now, last_state_change_at |-> now]]

\* A transition that stamps the reading on issued_at as well.
Ticket_transition_StampsIssuedAt(t, to_state, now) ==
    IF assert_transition(t.state, to_state) # "ok"
    THEN [result |-> assert_transition(t.state, to_state), ticket |-> t]
    ELSE IF ~now.aware
    THEN [result |-> "InvariantViolation", ticket |-> t]
    ELSE [result |-> "ok",
          ticket |-> [t EXCEPT !.state = to_state, !.last_state_change_at = now,
                               !.issued_at = now]]

\* A transition that trusts the clock's reading.
Ticket_transition_ClockTrusted(t, to_state, now) ==
    IF assert_transition(t.state, to_state) # "ok"
    THEN [result |-> assert_transition(t.state, to_state), ticket |-> t]
    ELSE [result |-> "ok",
          ticket |-> [t EXCEPT !.state = to_state, !.last_state_change_at = now]]

\* A transition that assigns the state before it validates the reading.
Ticket_transition_SetThenCheck(t, to_state, now) ==
    IF assert_transition(t.state, to_state) # "ok"
    THEN [result |-> assert_transition(t.state, to_state), ticket |-> t]
    ELSE IF ~now.aware
    THEN [result |-> "InvariantViolation", ticket |-> [t EXCEPT !.state = to_state]]
    ELSE [result |-> "ok",
          ticket |-> [t EXCEPT !.state = to_state, !.last_state_change_at = now]]

\* A transition that never consults the state machine.
Ticket_transition_NoCheck(t, to_state, now) ==
    IF ~now.aware
    THEN [result |-> "InvariantViolation", ticket |-> t]
    ELSE [result |-> "ok",
          ticket |-> [t EXCEPT !.state = to_state, !.last_state_change_at = now]]

\* Ticket._transition: [result, ticket]; the ticket is unchanged when it raises
Ticket_transition(t, to_state, now) ==
    IF assert_transition(t.state, to_state) # "ok"
    THEN [result |-> assert_transition(t.state, to_state), ticket |-> t]
    ELSE IF ~now.aware
    THEN [result |-> "InvariantViolation", ticket |-> t]
    ELSE [result |-> "ok",
          ticket |-> [t EXCEPT !.state = to_state, !.last_state_change_at = now]]

\* The target state of each transition method
MethodTarget ==
    [m \in {"mark_paid", "check_in", "board", "close"} |->
        CASE m = "mark_paid" -> "PAID"
          [] m = "check_in"  -> "CHECKED_IN"
          [] m = "board"     -> "BOARDED"
          [] OTHER           -> "CLOSED"]

\* lastCall.entered after a call that returned r
Entered(r) ==
    IF r.result = "ok" THEN Append(lastCall.entered, r.ticket.state)
    ELSE lastCall.entered

\* One call of a transition method on the ticket instance
CallMethod(m) ==
    /\ ticket.state # "none"
    /\ \E now \in Readings :
         LET r == Ticket_transition(ticket, MethodTarget[m], now) IN
         /\ ticket' = r.ticket
         /\ lastCall' = [NoCall EXCEPT !.op = m, !.from = ticket.state,
                                        !.now = now, !.result = r.result,
                                        !.entered = Entered(r)]
    /\ UNCHANGED <<liveVars, authVars, chainVars, replayVars, regVars,
                   flightVars, attVars, euVars, raceVars, repoVars, genVars>>

issue ==
    /\ ticket.state = "none"
    /\ \E n \in TicketNumbers, f \in FlightIds, p \in PassengerIds, now \in Readings :
         LET r == Ticket_issue(n, f, p, now) IN
         /\ ticket' = r.ticket
         /\ lastCall' = [NoCall EXCEPT !.op = "issue", !.now = now,
                                        !.result = r.result]
    /\ UNCHANGED <<liveVars, authVars, chainVars, replayVars, regVars,
                   flightVars, attVars, euVars, raceVars, repoVars, genVars>>

mark_paid == CallMethod("mark_paid")

check_in == CallMethod("check_in")

board == CallMethod("board")

close == CallMethod("close")

(***************************************************************************)
(* Cross-aggregate issuing rules.                                          *)
(***************************************************************************)
\* assert_flight_bookable: the exception raised, or "ok"
assert_flight_bookable(flight) ==
    IF flight.status = "CANCELLED" THEN "FlightUnavailable" ELSE "ok"

\* A rule that looks at bookability before identity.
assert_ticket_issuable_BookableFirst(t, flight) ==
    IF assert_flight_bookable(flight) # "ok"
    THEN assert_flight_bookable(flight)
    ELSE IF t.flight_id # flight.flight_id
    THEN "InvariantViolation"
    ELSE "ok"

\* assert_ticket_issuable: identity first, then bookability
assert_ticket_issuable(t, flight) ==
    IF t.flight_id # flight.flight_id
    THEN "InvariantViolation"
    ELSE assert_flight_bookable(flight)

Flights == [flight_id : FlightIds, status : FlightStatus]

(***************************************************************************)
(* The permission table and its enforcement.                               *)
(***************************************************************************)
Actions ==
    {"ISSUE_TICKET", "PAY_TICKET", "CHECK_IN", "BOARD", "CLOSE_TICKET",
     "OVERRIDE_BOARDING"}

PERMISSIONS ==
    [a \in Actions |->
        CASE a = "ISSUE_TICKET"      -> {"SYSTEM"}
          [] a = "PAY_TICKET"        -> {"PASSENGER", "FINANCE"}
          [] a = "CHECK_IN"          -> {"CHECKIN_AGENT"}
          [] a = "BOARD"             -> {"GATE_AGENT"}
          [] a = "CLOSE_TICKET"      -> {"SYSTEM"}
          [] OTHER                   -> {"CAPTAIN", "SECURITY"}]

(***************************************************************************)
(* The command services.  Each execute() receives the ticket and a command *)
(* that carries no authority; `role` is the role of the authority that     *)
(* issued the command, recorded in lastCall and, as in the code, consulted *)
(* by nothing.                                                             *)
(***************************************************************************)
\* Guards in which CheckInService kept PayTicketService's state.
ServiceGuard_Copied ==
    [s \in {"PayTicketService", "CheckInService", "BoardService", "CloseService"} |->
        CASE s = "PayTicketService" -> "ISSUED"
          [] s = "CheckInService"   -> "ISSUED"
          [] s = "BoardService"     -> "CHECKED_IN"
          [] OTHER                  -> "BOARDED"]

\* The state each service's own guard requires
ServiceGuard ==
    [s \in {"PayTicketService", "CheckInService", "BoardService", "CloseService"} |->
        CASE s = "PayTicketService" -> "ISSUED"
          [] s = "CheckInService"   -> "PAID"
          [] s = "BoardService"     -> "CHECKED_IN"
          [] OTHER                  -> "BOARDED"]

\* The aggregate method each service invokes
ServiceMethod ==
    [s \in {"PayTicketService", "CheckInService", "BoardService", "CloseService"} |->
        CASE s = "PayTicketService" -> "mark_paid"
          [] s = "CheckInService"   -> "check_in"
          [] s = "BoardService"     -> "board"
          [] OTHER                  -> "close"]

\* The permission-table action each command stands for
ServiceAction ==
    [s \in {"IssueTicketService", "PayTicketService", "CheckInService",
            "BoardService", "CloseService"} |->
        CASE s = "IssueTicketService" -> "ISSUE_TICKET"
          [] s = "PayTicketService"   -> "PAY_TICKET"
          [] s = "CheckInService"     -> "CHECK_IN"
          [] s = "BoardService"       -> "BOARD"
          [] OTHER                    -> "CLOSE_TICKET"]

\* <Service>.execute(ticket, command): [result, ticket]
Service_execute(s, t, now) ==
    IF t.state # ServiceGuard[s]
    THEN [result |-> "ValueError", ticket |-> t]
    ELSE Ticket_transition(t, MethodTarget[ServiceMethod[s]], now)

ExecuteService(s) ==
    /\ ticket.state # "none"
    /\ \E role \in AuthorityRole, now \in Readings :
         LET r == Service_execute(s, ticket, now) IN
         /\ ticket' = r.ticket
         /\ lastCall' = [NoCall EXCEPT !.op = s, !.role = role,
                                        !.from = ticket.state, !.now = now,
                                        !.result = r.result,
                                        !.entered = Entered(r)]
    /\ UNCHANGED <<liveVars, authVars, chainVars, replayVars, regVars,
                   flightVars, attVars, euVars, raceVars, repoVars, genVars>>

\* An execute that returns the ticket without consulting the flight.
IssueTicketService_run_Unchecked(n, f, p, flight, now) ==
    Ticket_issue(n, f, p, now)

\* IssueTicketService.execute(command, flight): [result, ticket]
IssueTicketService_run(n, f, p, flight, now) ==
    LET r == Ticket_issue(n, f, p, now) IN
    IF r.result # "ok"
    THEN r
    ELSE IF assert_ticket_issuable(r.ticket, flight) # "ok"
    THEN [result |-> assert_ticket_issuable(r.ticket, flight), ticket |-> NoTicket]
    ELSE r

\* The outcome of the assert_ticket_issuable call of execute, "none" when
\* Ticket.issue raised before it
IssueTicketService_issuable(n, f, p, flight, now) ==
    LET r == Ticket_issue(n, f, p, now) IN
    IF r.result # "ok" THEN "none" ELSE assert_ticket_issuable(r.ticket, flight)

IssueTicketService_execute ==
    /\ ticket.state = "none"
    /\ \E role \in AuthorityRole, n \in TicketNumbers, f \in FlightIds,
          p \in PassengerIds, flight \in Flights, now \in Readings :
         LET r == IssueTicketService_run(n, f, p, flight, now) IN
         /\ ticket' = r.ticket
         /\ lastCall' = [NoCall EXCEPT
                            !.op = "IssueTicketService", !.role = role,
                            !.now = now, !.result = r.result,
                            !.flight_id = f, !.flight = flight,
                            !.issuable =
                                IssueTicketService_issuable(n, f, p, flight, now)]
    /\ UNCHANGED <<liveVars, authVars, chainVars, replayVars, regVars,
                   flightVars, attVars, euVars, raceVars, repoVars, genVars>>

PayTicketService_execute == ExecuteService("PayTicketService")

CheckInService_execute == ExecuteService("CheckInService")

BoardService_execute == ExecuteService("BoardService")

CloseService_execute == ExecuteService("CloseService")

(***************************************************************************)
(* assert_authorized(action, authority).                                   *)
(***************************************************************************)
ActorIds == {<<"a">>, <<"b">>, <<" ">>}

\* Action names a caller may pass: the registered ones, an unknown one and a typo
ActionNames == Actions \cup {"UNREGISTERED_ACTION", "ISSUE_TICKT"}

\* Authority.__post_init__: the exception raised, or "ok"
Authority_post_init(actor_id) ==
    IF IsBlank(actor_id) THEN "InvariantViolation" ELSE "ok"

\* An enforcement that grants whatever the table does not mention.
assert_authorized_FailOpen(perms, action, role) ==
    IF action \notin DOMAIN perms
    THEN "ok"
    ELSE IF role \notin perms[action] THEN "InvariantViolation" ELSE "ok"

\* assert_authorized: the exception raised, or "ok".  PERMISSIONS.get(action)
\* is None for an unregistered action, and `not allowed_roles` also holds
\* for an empty set of roles.
assert_authorized(perms, action, role) ==
    IF action \notin DOMAIN perms \/ perms[action] = {}
    THEN "InvariantViolation"
    ELSE IF role \notin perms[action] THEN "InvariantViolation" ELSE "ok"

AssertAuthorized ==
    /\ \E action \in ActionNames, actor_id \in ActorIds, role \in AuthorityRole :
         /\ Authority_post_init(actor_id) = "ok"
         /\ authCall' = [action |-> action, actor_id |-> actor_id, role |-> role,
                         result |-> assert_authorized(permissions, action, role)]
    /\ UNCHANGED permissions
    /\ UNCHANGED <<ticketVars, liveVars, chainVars, replayVars, regVars,
                   flightVars, attVars, euVars, raceVars, repoVars, genVars>>

(***************************************************************************)
(* The Ticket of src/domain/ticket/model.py: lowercase states, an event    *)
(* list, and lifecycle methods that assign the state unconditionally.      *)
(***************************************************************************)
MaxLiveEvents == 4

Amounts == {100}

NoData == 0

LiveStates == {"created", "issued", "paid", "checked-in", "boarded", "closed"}

\* Ticket.__init__
LiveTicket_init == [state |-> "created", events |-> <<>>]

\* Ticket.record_event: append a RecordedEvent
LiveTicket_record_event(t, event_type, data) ==
    [t EXCEPT !.events = Append(t.events, [event_type |-> event_type, data |-> data])]

\* A lifecycle method body: self.state = <state>; self.record_event(<type>, ...)
LiveTicket_set(t, state, event_type, data) ==
    LiveTicket_record_event([t EXCEPT !.state = state], event_type, data)

LiveCall(op, state, event_type, data) ==
    /\ Len(liveTicket.events) < MaxLiveEvents
    /\ liveTicket' = LiveTicket_set(liveTicket, state, event_type, data)
    /\ liveLast' = [op |-> op, from |-> liveTicket.state]
    /\ UNCHANGED <<ticketVars, authVars, chainVars, replayVars, regVars,
                   flightVars, attVars, euVars, raceVars, repoVars, genVars>>

LiveTicket_issue == \E price \in Amounts : LiveCall("issue", "issued", "issued", price)

LiveTicket_pay == \E amount \in Amounts : LiveCall("pay", "paid", "paid", amount)

LiveTicket_check_in == LiveCall("check_in", "checked-in", "checked_in", NoData)

LiveTicket_board == LiveCall("board", "boarded", "boarded", NoData)

LiveTicket_close == LiveCall("close", "closed", "closed", NoData)

(***************************************************************************)
(* Attestation and the event chain.                                        *)
(*                                                                         *)
(* A byte string is a sequence of bytes.  A hex digest is represented by   *)
(* the sequence of byte strings that were fed, link after link, into the   *)
(* digests it is built from: the digest of payload p alone is <<p>>, and   *)
(* the digest of (the hex digest d followed by p) is d \o <<p>>.  The      *)
(* representation is injective, as SHA-256 is taken to be, and the empty   *)
(* string "" is <<>>.  An Optional[str] is None or Some(string).           *)
(***************************************************************************)
MaxStream == 3

MaxTampers == 1

Payloads == {<<1>>, <<2>>}

Writers == {"w1", "w2"}

None == [some |-> FALSE, v |-> <<>>]

Some(str) == [some |-> TRUE, v |-> str]

\* Python truthiness of an Optional[str]: neither None nor ""
Truthy(opt) == opt.some /\ opt.v # <<>>

\* hashlib.sha256 fed `prefix` (a hex digest, or nothing) and then `payload`
sha256_hexdigest(prefix, payload) == prefix \o <<payload>>

\* A compute that forgets to store the previous hash.
Attestation_compute_DropsPrevious(payload, previous_hash) ==
    [hash |-> sha256_hexdigest(IF Truthy(previous_hash) THEN previous_hash.v ELSE <<>>,
                               payload),
     previous_hash |-> None]

\* What hashing str(None) would feed the digest
NoneText == <<<<0>>>>

\* A compute that feeds the digest the text of whatever it is given.
Attestation_compute_NoneTagged(payload, previous_hash) ==
    [hash |-> sha256_hexdigest(IF previous_hash.some THEN previous_hash.v ELSE NoneText,
                               payload),
     previous_hash |-> previous_hash]

\* Attestation.compute(payload, previous_hash)
Attestation_compute(payload, previous_hash) ==
    [hash |-> sha256_hexdigest(IF Truthy(previous_hash) THEN previous_hash.v ELSE <<>>,
                               payload),
     previous_hash |-> previous_hash]

\* An EventRecord, reduced to the fields the chain reads
EventRecord(payload, attestation) ==
    [payload |-> payload, attestation |-> attestation]

\* A walk that never advances the running hash.
verify_from_NoAdvance(events, i, previous_hash) ==
    IF \E k \in i..Len(events) : events[k].attestation.previous_hash # previous_hash
    THEN CHOOSE k \in i..Len(events) :
            /\ events[k].attestation.previous_hash # previous_hash
            /\ \A j \in i..(k - 1) : events[j].attestation.previous_hash = previous_hash
    ELSE 0

\* The loop of verify_event_chain from event i on with the running hash
\* previous_hash: the index of the event at which it raises, 0 if it ends.
RECURSIVE verify_from(_, _, _)
verify_from(events, i, previous_hash) ==
    IF i > Len(events)
    THEN 0
    ELSE IF events[i].attestation.previous_hash # previous_hash
    THEN i
    ELSE verify_from(events, i + 1, Some(events[i].attestation.hash))

\* A verification that looks at the first event only.
verify_event_chain_FirstOnly(events) ==
    IF events # <<>> /\ events[1].attestation.previous_hash # None THEN 1 ELSE 0

\* verify_event_chain(events): the running hash starts at None
verify_event_chain(events) == verify_from(events, 1, None)

\* The hash a writer reads before it appends: the last event's, or None
LastHash(events) ==
    IF events = <<>> THEN None ELSE Some(events[Len(events)].attestation.hash)

NoChainCall ==
    [op |-> "none", at |-> 0, tampers |-> 0, tamper |-> "none",
     interleaved |-> FALSE, verified |-> FALSE, failedAt |-> 0]

IdleWriter == [pc |-> "idle", prev |-> None, raced |-> FALSE]

\* The stream changed: an earlier verification says nothing about it
Changed(op, at) ==
    [chainCall EXCEPT !.op = op, !.at = at, !.verified = FALSE, !.failedAt = 0]

Pending == {w \in Writers : writers[w].pc = "read"}

\* A writer reads the stream's current last hash.
WriterRead(w) ==
    /\ writers[w].pc = "idle"
    /\ chainCall.tampers = 0
    /\ Len(stream) + Cardinality(Pending) < MaxStream
    /\ writers' = [writers EXCEPT ![w] = [pc |-> "read", prev |-> LastHash(stream),
                                          raced |-> FALSE]]
    /\ chainCall' = [chainCall EXCEPT !.op = "read"]
    /\ UNCHANGED stream
    /\ UNCHANGED <<ticketVars, liveVars, authVars, replayVars, regVars,
                   flightVars, attVars, euVars, raceVars, repoVars, genVars>>

\* A writer computes its event's attestation from the hash it read and
\* appends the event; nothing checks that the hash it read is still the last.
WriterAppend(w) ==
    /\ writers[w].pc = "read"
    /\ \E payload \in Payloads :
         stream' = Append(stream,
                          EventRecord(payload,
                                      Attestation_compute(payload, writers[w].prev)))
    /\ writers' = [x \in Writers |->
                     IF x = w THEN IdleWriter
                     ELSE IF writers[x].pc = "read"
                     THEN [writers[x] EXCEPT !.raced = TRUE]
                     ELSE writers[x]]
    /\ chainCall' = [Changed("append", Len(stream) + 1) EXCEPT
                        !.interleaved = chainCall.interleaved \/ writers[w].raced]
    /\ UNCHANGED <<ticketVars, liveVars, authVars, replayVars, regVars,
                   flightVars, attVars, euVars, raceVars, repoVars, genVars>>

\* Tampering starts from a stream built without interleaving, at rest.
CanTamper ==
    /\ stream # <<>>
    /\ chainCall.tampers < MaxTampers
    /\ ~chainCall.interleaved
    /\ Pending = {}

Tampered(op, at) ==
    [Changed(op, at) EXCEPT !.tampers = chainCall.tampers + 1, !.tamper = op]

\* One event's payload is replaced; its attestation is left as stored.
TamperPayload ==
    /\ CanTamper
    /\ \E i \in 1..Len(stream), payload \in Payloads :
         /\ payload # stream[i].payload
         /\ stream' = [stream EXCEPT ![i].payload = payload]
         /\ chainCall' = Tampered("edit_payload", i)
    /\ UNCHANGED writers
    /\ UNCHANGED <<ticketVars, liveVars, authVars, replayVars, regVars,
                   flightVars, attVars, euVars, raceVars, repoVars, genVars>>

\* One event's previous_hash is replaced by another value.
TamperPreviousHash ==
    /\ CanTamper
    /\ \E i \in 1..Len(stream),
          h \in {None, Some(<<>>)} \cup
                {Some(stream[k].attestation.hash) : k \in 1..Len(stream)} :
         /\ h # stream[i].attestation.previous_hash
         /\ stream' = [stream EXCEPT ![i].attestation.previous_hash = h]
         /\ chainCall' = Tampered("edit_previous_hash", i)
    /\ UNCHANGED writers
    /\ UNCHANGED <<ticketVars, liveVars, authVars, replayVars, regVars,
                   flightVars, attVars, euVars, raceVars, repoVars, genVars>>

\* One event is removed from the stream.
DeleteEvent ==
    /\ CanTamper
    /\ \E i \in 1..Len(stream) :
         /\ stream' = SubSeq(stream, 1, i - 1) \o SubSeq(stream, i + 1, Len(stream))
         /\ chainCall' = Tampered("delete", i)
    /\ UNCHANGED writers
    /\ UNCHANGED <<ticketVars, liveVars, authVars, replayVars, regVars,
                   flightVars, attVars, euVars, raceVars, repoVars, genVars>>

\* Two events change places.
SwapEvents ==
    /\ CanTamper
    /\ \E i \in 1..Len(stream), j \in 1..Len(stream) :
         /\ i < j
         /\ stream' = [stream EXCEPT ![i] = stream[j], ![j] = stream[i]]
         /\ chainCall' = Tampered("swap", i)
    /\ UNCHANGED writers
    /\ UNCHANGED <<ticketVars, liveVars, authVars, replayVars, regVars,
                   flightVars, attVars, euVars, raceVars, repoVars, genVars>>

\* verify_event_chain(stream) is run; it only reads the stream.
VerifyChain ==
    /\ ~chainCall.verified
    /\ chainCall' = [chainCall EXCEPT !.op = "verify", !.verified = TRUE,
                                      !.failedAt = verify_event_chain(stream)]
    /\ UNCHANGED <<stream, writers>>
    /\ UNCHANGED <<ticketVars, liveVars, authVars, replayVars, regVars,
                   flightVars, attVars, euVars, raceVars, repoVars, genVars>>

(***************************************************************************)
(* Ticket.rehydrate(events): replay of an ordered event list.              *)
(*                                                                         *)
(* The source defines _apply twice in one scope; the second definition     *)
(* (the version check) replaces the first (the dispatch on event_type),    *)
(* so the first is never called.  cls._empty() is called but defined       *)
(* nowhere: it is taken to give a Ticket with no state and, as __init__    *)
(* sets, _version = 0.  An event is reduced to the fields read here.       *)
(***************************************************************************)
MaxEvents == 3

MaxVersion == 3

KnownEventTypes ==
    {"TicketIssued", "TicketPaid", "TicketCheckedIn", "TicketBoarded", "TicketClosed"}

EventTypes == KnownEventTypes \cup {"SeatChanged"}

ReplayEvents == [event_type : EventTypes, version : 1..MaxVersion]

\* cls._empty()
Ticket_empty == [state |-> "none", version |-> 0]

NoReturn == [state |-> "none", version |-> -1]

\* The first definition of _apply (dispatch on event_type), which the second
\* definition replaces: the exception it would raise, or "ok".
Ticket_apply_shadowed(event) ==
    IF event.event_type \in KnownEventTypes THEN "ok" ELSE "RuntimeError"

\* An _apply that takes whatever version comes.
Ticket_apply_AnyVersion(t, event) ==
    [result |-> "ok", ticket |-> [t EXCEPT !.version = event.version]]

\* The _apply in effect (the second definition): [result, ticket]
Ticket_apply(t, event) ==
    IF event.version # t.version + 1
    THEN [result |-> "RuntimeError", ticket |-> t]
    ELSE [result |-> "ok", ticket |-> [t EXCEPT !.version = event.version]]

\* The loop of rehydrate from event i on, with `t` the ticket under
\* construction: [result, applied, returned].  An exception leaves the loop
\* at once and nothing is returned.
RECURSIVE rehydrate_from(_, _, _)
rehydrate_from(events, i, t) ==
    IF i > Len(events)
    THEN [result |-> "ok", applied |-> i - 1, returned |-> t]
    ELSE IF Ticket_apply(t, events[i]).result # "ok"
    THEN [result |-> Ticket_apply(t, events[i]).result, applied |-> i - 1,
          returned |-> NoReturn]
    ELSE rehydrate_from(events, i + 1, Ticket_apply(t, events[i]).ticket)

\* Ticket.rehydrate(events)
Ticket_rehydrate(events) ==
    IF events = <<>>
    THEN [result |-> "ValueError", applied |-> 0, returned |-> NoReturn]
    ELSE rehydrate_from(events, 1, Ticket_empty)

NoReplayCall ==
    [events |-> <<>>, ran |-> FALSE, result |-> "none", applied |-> 0,
     returned |-> NoReturn]

\* The stored log grows by one event (the caller's input to rehydrate).
LogEvent ==
    /\ ~replayCall.ran
    /\ Len(replayCall.events) < MaxEvents
    /\ \E e \in ReplayEvents :
         replayCall' = [replayCall EXCEPT !.events = Append(replayCall.events, e)]
    /\ UNCHANGED <<ticketVars, liveVars, authVars, chainVars, regVars,
                   flightVars, attVars, euVars, raceVars, repoVars, genVars>>

Rehydrate ==
    /\ ~replayCall.ran
    /\ LET r == Ticket_rehydrate(replayCall.events) IN
         replayCall' = [events |-> replayCall.events, ran |-> TRUE,
                        result |-> r.result, applied |-> r.applied,
                        returned |-> r.returned]
    /\ UNCHANGED <<ticketVars, liveVars, authVars, chainVars, regVars,
                   flightVars, attVars, euVars, raceVars, repoVars, genVars>>

(***************************************************************************)
(* RegulatoryEngine: composition of the applicable regulations' results.   *)
(*                                                                         *)
(* A configured regulation is its regulation_id, law_version and           *)
(* effective_from, whether applies_to holds for the call's action and      *)
(* context, and what its evaluate returns for them (allowed, obligations,  *)
(* prohibitions); its result is stamped with the evaluated_at passed in.   *)
(***************************************************************************)
MaxRegulations == 3

EvaluatedAt == 2

EffectiveFroms == {EvaluatedAt, EvaluatedAt + 1}

ObligationLists == {<<>>, <<"A">>, <<"B", "A">>}

RegulationIds == <<"R1", "R2", "R3", "R4", "R5">>

\* The regulations that may stand at position i of the configuration
RegulationsAt(i) ==
    {[regulation_id |-> RegulationIds[i], law_version |-> "v1",
      effective_from |-> e, applies |-> a, allowed |-> al, obligations |-> o,
      prohibitions |-> IF al THEN <<>> ELSE <<"BLOCKED">>] :
        e \in EffectiveFroms, a \in BOOLEAN, al \in BOOLEAN, o \in ObligationLists}

\* Regulation.evaluate(action, context, evaluated_at): a ComplianceResult
Regulation_evaluate(r, evaluated_at) ==
    [allowed |-> r.allowed, obligations |-> r.obligations,
     prohibitions |-> r.prohibitions, regulation_id |-> r.regulation_id,
     law_version |-> r.law_version, evaluated_at |-> evaluated_at]

\* A selection that forgets the effective date.
Selected_AppliesOnly(r, evaluated_at) == r.applies

\* The condition of the list comprehension selecting a regulation
Selected(r, evaluated_at) == r.effective_from <= evaluated_at /\ r.applies

\* [r for r in self._regulations if <selected>]: the selected regulations,
\* in configuration order
RECURSIVE Applicable(_, _)
Applicable(regulations, evaluated_at) ==
    IF regulations = <<>>
    THEN <<>>
    ELSE (IF Selected(Head(regulations), evaluated_at)
          THEN <<Head(regulations)>> ELSE <<>>)
         \o Applicable(Tail(regulations), evaluated_at)

\* The results of the applicable regulations, in order
Results(regulations, evaluated_at) ==
    [i \in 1..Len(Applicable(regulations, evaluated_at)) |->
        Regulation_evaluate(Applicable(regulations, evaluated_at)[i], evaluated_at)]

\* The regulations whose evaluate is called, by regulation_id, in call order
EvaluatedIds(regulations, evaluated_at) ==
    [i \in 1..Len(Applicable(regulations, evaluated_at)) |->
        Applicable(regulations, evaluated_at)[i].regulation_id]

\* Append to `acc` the elements of `seq` it does not hold yet
RECURSIVE AppendNew(_, _)
AppendNew(acc, seq) ==
    IF seq = <<>> THEN acc
    ELSE AppendNew(IF \E k \in 1..Len(acc) : acc[k] = Head(seq)
                   THEN acc ELSE Append(acc, Head(seq)),
                   Tail(seq))

RECURSIVE FlattenInto(_, _)
FlattenInto(acc, results) ==
    IF results = <<>> THEN acc
    ELSE FlattenInto(AppendNew(acc, Head(results).obligations), Tail(results))

\* A merge that keeps each obligation once.
Flatten_Dedup(results) == FlattenInto(<<>>, results)

\* tuple(o for r in results for o in r.obligations)
RECURSIVE Flatten(_)
Flatten(results) ==
    IF results = <<>> THEN <<>>
    ELSE Head(results).obligations \o Flatten(Tail(results))

\* RegulatoryEngine._merge(results)
RegulatoryEngine_merge(results) ==
    [allowed |-> TRUE, obligations |-> Flatten(results), prohibitions |-> <<>>,
     regulation_id |-> "MULTI", law_version |-> "COMPOSITE",
     evaluated_at |-> IF results # <<>> THEN results[1].evaluated_at ELSE 0]

\* An evaluation in which the last disallowing result wins.
first_disallowed_Last(results) ==
    IF \E i \in 1..Len(results) : ~results[i].allowed
    THEN CHOOSE i \in 1..Len(results) :
            /\ ~results[i].allowed
            /\ \A j \in (i + 1)..Len(results) : results[j].allowed
    ELSE 0

\* `for result in results: if not result.allowed: return result`: the index
\* of the result returned by the loop, 0 if the loop ends
RECURSIVE first_disallowed_from(_, _)
first_disallowed_from(results, i) ==
    IF i > Len(results) THEN 0
    ELSE IF ~results[i].allowed THEN i
    ELSE first_disallowed_from(results, i + 1)

first_disallowed(results) == first_disallowed_from(results, 1)

\* RegulatoryEngine.evaluate(action, context, evaluated_at)
RegulatoryEngine_evaluate(regulations, evaluated_at) ==
    LET results == Results(regulations, evaluated_at) IN
    IF first_disallowed(results) # 0
    THEN results[first_disallowed(results)]
    ELSE RegulatoryEngine_merge(results)

NoResult ==
    [allowed |-> FALSE, obligations |-> <<>>, prohibitions |-> <<>>,
     regulation_id |-> "none", law_version |-> "none", evaluated_at |-> -1]

NoRegCall ==
    [regulations |-> <<>>, ran |-> FALSE, evaluated |-> <<>>, result |-> NoResult]

\* One more regulation is passed to RegulatoryEngine.__init__
ConfigureRegulation ==
    /\ ~regCall.ran
    /\ Len(regCall.regulations) < MaxRegulations
    /\ \E r \in RegulationsAt(Len(regCall.regulations) + 1) :
         regCall' = [regCall EXCEPT !.regulations = Append(regCall.regulations, r)]
    /\ UNCHANGED <<ticketVars, liveVars, authVars, chainVars, replayVars,
                   flightVars, attVars, euVars, raceVars, repoVars, genVars>>

Evaluate ==
    /\ ~regCall.ran
    /\ regCall' = [regCall EXCEPT
                      !.ran = TRUE,
                      !.evaluated = EvaluatedIds(regCall.regulations, EvaluatedAt),
                      !.result = RegulatoryEngine_evaluate(regCall.regulations,
                                                           EvaluatedAt)]
    /\ UNCHANGED <<ticketVars, liveVars, authVars, chainVars, replayVars,
                   flightVars, attVars, euVars, raceVars, repoVars, genVars>>

(***************************************************************************)
(* Attestation.compute called on its own.                                  *)
(***************************************************************************)
\* Hex digests of one or two chained payloads
Digests ==
    {<<p>> : p \in Payloads} \cup {<<p, q>> : p \in Payloads, q \in Payloads}

\* The previous_hash arguments: None, "" and digests
PreviousHashes == {None, Some(<<>>)} \cup {Some(h) : h \in Digests}

NoAttestation == [hash |-> <<>>, previous_hash |-> None]

NoCompute == [called |-> FALSE, payload |-> <<>>, previous_hash |-> None,
              result |-> NoAttestation]

\* last is the last compute call, prev the one before it
NoAttCall == [last |-> NoCompute, prev |-> NoCompute]

Compute ==
    /\ \E payload \in Payloads, previous_hash \in PreviousHashes :
         attCall' = [last |-> [called |-> TRUE, payload |-> payload,
                               previous_hash |-> previous_hash,
                               result |-> Attestation_compute(payload, previous_hash)],
                     prev |-> attCall.last]
    /\ UNCHANGED <<ticketVars, liveVars, authVars, chainVars, replayVars,
                   regVars, flightVars, euVars, raceVars, repoVars, genVars>>

(***************************************************************************)
(* The Flight values.  src/domain/flight/model.py has delay and cancel,    *)
(* which return a new Flight; the archived Flight has apply_event, which   *)
(* overwrites fields of the receiver.  `cls` tells which class a value is  *)
(* of; each class has its own status constants.                            *)
(***************************************************************************)
MaxFlightOps == 3
MaxMinutes == 1

Minutes == (0 - MaxMinutes)..MaxMinutes

ArchiveFlightStatus == {"scheduled", "departed", "arrived", "cancelled"}

\* FlightStatus.CANCELLED of the value's class
Cancelled(cls) == IF cls = "archive" THEN "cancelled" ELSE "CANCELLED"

\* The Flight values a caller constructs
NewFlights ==
    {[cls |-> c, flight_id |-> "FL-1", origin |-> "NDJ", destination |-> "CDG",
      aircraft_id |-> "AC-1", departure_time |-> d, arrival_time |-> a,
      status |-> st] :
        c \in {"live", "archive"}, d \in {0, 1}, a \in {1, 3},
        st \in FlightStatus \cup ArchiveFlightStatus}

\* A delay that marks the flight DELAYED.
Flight_delay_MarksDelayed(f, minutes) ==
    [f EXCEPT !.departure_time = @ + minutes, !.arrival_time = @ + minutes,
              !.status = "DELAYED"]

\* A delay that moves the departure only.
Flight_delay_DepartureOnly(f, minutes) ==
    [f EXCEPT !.departure_time = @ + minutes]

\* Flight.delay(minutes)
Flight_delay(f, minutes) ==
    [f EXCEPT !.departure_time = @ + minutes, !.arrival_time = @ + minutes]

\* The receiver after delay or cancel returned: dataclasses.replace builds
\* a new Flight and assigns nothing on self
Flight_receiver_after(f) == f

\* A cancel that takes a second call for a reinstatement.
Flight_cancel_Toggle(f) ==
    IF f.status = Cancelled(f.cls)
    THEN [f EXCEPT !.status = "SCHEDULED"]
    ELSE [f EXCEPT !.status = Cancelled(f.cls)]

\* Flight.cancel()
Flight_cancel(f) ==
    IF f.status = Cancelled(f.cls)
    THEN f
    ELSE [f EXCEPT !.status = Cancelled(f.cls)]

\* The events apply_event is given; delay is FlightDelayed's timedelta
FlightEvents ==
    {[type |-> "FlightDelayed", delay |-> d] : d \in Minutes}
        \cup {[type |-> t, delay |-> 0] :
                t \in {"FlightCreated", "FlightDeparted", "FlightArrived",
                       "FlightCancelled"}}

\* Flight.apply_event(event) of the archived class: the receiver afterwards
Flight_apply_event(f, event) ==
    CASE event.type = "FlightDelayed"
            -> [f EXCEPT !.departure_time = @ + event.delay]
      [] event.type = "FlightDeparted"  -> [f EXCEPT !.status = "departed"]
      [] event.type = "FlightArrived"   -> [f EXCEPT !.status = "arrived"]
      [] event.type = "FlightCancelled" -> [f EXCEPT !.status = "cancelled"]
      [] OTHER                          -> f

NoFlight ==
    [cls |-> "none", flight_id |-> "none", origin |-> "none",
     destination |-> "none", aircraft_id |-> "none", departure_time |-> 0,
     arrival_time |-> 0, status |-> "none"]

\* op, minutes and before describe the last operation and the value it was
\* called on, receiver the object it was called on as it is afterwards; prevOp, prevMinutes and prevBefore the one before it
NoFlightCall ==
    [ops |-> 0, op |-> "none", minutes |-> 0, before |-> NoFlight,
     receiver |-> NoFlight, prevOp |-> "none", prevMinutes |-> 0, prevBefore |-> NoFlight]

FlightCalled(op, minutes, receiver) ==
    [ops |-> flightCall.ops + 1, op |-> op, minutes |-> minutes,
     before |-> flightObj, receiver |-> receiver, prevOp |-> flightCall.op,
     prevMinutes |-> flightCall.minutes, prevBefore |-> flightCall.before]

delay ==
    /\ flightObj.cls = "live"
    /\ flightCall.ops < MaxFlightOps
    /\ \E minutes \in Minutes :
         /\ flightObj' = Flight_delay(flightObj, minutes)
         /\ flightCall' = FlightCalled("delay", minutes,
                                        Flight_receiver_after(flightObj))
    /\ UNCHANGED <<ticketVars, liveVars, authVars, chainVars, replayVars,
                   regVars, attVars, euVars, raceVars, repoVars, genVars>>

cancel ==
    /\ flightObj.cls = "live"
    /\ flightCall.ops < MaxFlightOps
    /\ flightObj' = Flight_cancel(flightObj)
    /\ flightCall' = FlightCalled("cancel", 0, Flight_receiver_after(flightObj))
    /\ UNCHANGED <<ticketVars, liveVars, authVars, chainVars, replayVars,
                   regVars, attVars, euVars, raceVars, repoVars, genVars>>

apply_event ==
    /\ flightObj.cls = "archive"
    /\ flightCall.ops < MaxFlightOps
    /\ \E event \in FlightEvents :
         /\ flightObj' = Flight_apply_event(flightObj, event)
         /\ flightCall' = FlightCalled(event.type, event.delay,
                                        Flight_apply_event(flightObj, event))
    /\ UNCHANGED <<ticketVars, liveVars, authVars, chainVars, replayVars,
                   regVars, attVars, euVars, raceVars, repoVars, genVars>>

(***************************************************************************)
(* The cancellation-compensation regulation, EU261Cancellation.            *)
(***************************************************************************)
MaxDelayHours == 4

DelayHours == 0..MaxDelayHours

RegulatoryAction ==
    {"ISSUE_TICKET", "PAY_TICKET", "CHECK_IN", "BOARD", "CLOSE_FLIGHT", "CANCEL"}

\* Values of context["departure_airport"].jurisdiction
JurisdictionCodes == {"EU", "RW", "INTL"}

\* EU261Cancellation.applies_to(action, context)
EU261Cancellation_applies_to(action, jurisdiction) ==
    action = "CANCEL" /\ jurisdiction = "EU"

\* An evaluate that owes nothing at exactly three hours.
EU261Cancellation_evaluate_Over3(delay_hours, evaluated_at) ==
    [allowed |-> TRUE,
     obligations |-> IF delay_hours <= 3 THEN <<>>
                     ELSE <<"PAY_COMPENSATION", "OFFER_REBOOKING">>,
     prohibitions |-> <<>>, regulation_id |-> "EU261-CANCEL",
     law_version |-> "2004-02", evaluated_at |-> evaluated_at]

\* EU261Cancellation.evaluate(action, context, evaluated_at)
EU261Cancellation_evaluate(delay_hours, evaluated_at) ==
    IF delay_hours < 3
    THEN [allowed |-> TRUE, obligations |-> <<>>, prohibitions |-> <<>>,
          regulation_id |-> "EU261-CANCEL", law_version |-> "2004-02",
          evaluated_at |-> evaluated_at]
    ELSE [allowed |-> TRUE,
          obligations |-> <<"PAY_COMPENSATION", "OFFER_REBOOKING">>,
          prohibitions |-> <<>>, regulation_id |-> "EU261-CANCEL",
          law_version |-> "2004-02", evaluated_at |-> evaluated_at]

NoEuCall ==
    [called |-> FALSE, action |-> "none", jurisdiction |-> "none",
     delay_hours |-> 0, evaluated_at |-> 0, applies |-> FALSE,
     result |-> NoResult]

\* applies_to and evaluate called with one action, context and evaluated_at
EvaluateEU261 ==
    /\ \E action \in RegulatoryAction, jurisdiction \in JurisdictionCodes,
          delay_hours \in DelayHours, evaluated_at \in Times :
         euCall' = [called |-> TRUE, action |-> action,
                    jurisdiction |-> jurisdiction, delay_hours |-> delay_hours,
                    evaluated_at |-> evaluated_at,
                    applies |-> EU261Cancellation_applies_to(action, jurisdiction),
                    result |-> EU261Cancellation_evaluate(delay_hours, evaluated_at)]
    /\ UNCHANGED <<ticketVars, liveVars, authVars, chainVars, replayVars,
                   regVars, flightVars, attVars, raceVars, repoVars, genVars>>

(***************************************************************************)
(* Two callers on one Ticket instance.  _transition takes no lock, so each *)
(* of its statements is a step of its own: the assert_transition call, the *)
(* clock reading with its timezone test, and the two assignments.          *)
(* `exclusive` says whether the callers themselves keep to one mutator at  *)
(* a time.                                                                 *)
(***************************************************************************)
Callers == {"c1", "c2"}

\* pc: where the caller is in _transition; now: what its clock returns;
\* raced: its assert_transition ran while another caller had passed its own
\* and not yet assigned the state; after: it began after another had returned
IdleCaller ==
    [pc |-> "idle", method |-> "none", now |-> NoReading, result |-> "none",
     raced |-> FALSE, after |-> FALSE]

\* The Ticket instances the callers may hold
RaceTickets ==
    {[state |-> st, ticket_number |-> "TCK-1", flight_id |-> "FL-1",
      passenger_id |-> <<"p", "1">>, issued_at |-> [t |-> 1, aware |-> TRUE],
      last_state_change_at |-> [t |-> 1, aware |-> TRUE]] : st \in TicketStates}

\* A caller invokes a transition method with its clock
Begin(c) ==
    /\ callers[c].pc = "idle"
    /\ exclusive => \A d \in Callers \ {c} : callers[d].pc \in {"idle", "done"}
    /\ \E m \in DOMAIN MethodTarget, now \in Readings :
         callers' = [callers EXCEPT
                       ![c] = [IdleCaller EXCEPT
                                 !.pc = "assert", !.method = m, !.now = now,
                                 !.after = \E d \in Callers \ {c} :
                                             callers[d].pc = "done"]]
    /\ UNCHANGED <<raceTicket, exclusive>>
    /\ UNCHANGED <<ticketVars, liveVars, authVars, chainVars, replayVars,
                   regVars, flightVars, attVars, euVars, repoVars, genVars>>

\* TICKET_STATES.assert_transition(self.state, to_state)
AssertTransition(c) ==
    /\ callers[c].pc = "assert"
    /\ LET outcome == assert_transition(raceTicket.state,
                                        MethodTarget[callers[c].method])
           raced == \E d \in Callers \ {c} : callers[d].pc \in {"clock", "state"}
       IN  callers' = [callers EXCEPT
                         ![c].raced = raced,
                         ![c].pc = IF outcome = "ok" THEN "clock" ELSE "done",
                         ![c].result = IF outcome = "ok" THEN "none" ELSE outcome]
    /\ UNCHANGED <<raceTicket, exclusive>>
    /\ UNCHANGED <<ticketVars, liveVars, authVars, chainVars, replayVars,
                   regVars, flightVars, attVars, euVars, repoVars, genVars>>

\* now = clock.now(); if now.tzinfo is None: raise InvariantViolation
ReadClock(c) ==
    /\ callers[c].pc = "clock"
    /\ callers' = [callers EXCEPT
                     ![c].pc = IF callers[c].now.aware THEN "state" ELSE "done",
                     ![c].result = IF callers[c].now.aware THEN "none"
                                   ELSE "InvariantViolation"]
    /\ UNCHANGED <<raceTicket, exclusive>>
    /\ UNCHANGED <<ticketVars, liveVars, authVars, chainVars, replayVars,
                   regVars, flightVars, attVars, euVars, repoVars, genVars>>

\* self.state = to_state
AssignState(c) ==
    /\ callers[c].pc = "state"
    /\ raceTicket' = [raceTicket EXCEPT !.state = MethodTarget[callers[c].method]]
    /\ callers' = [callers EXCEPT ![c].pc = "stamp"]
    /\ UNCHANGED exclusive
    /\ UNCHANGED <<ticketVars, liveVars, authVars, chainVars, replayVars,
                   regVars, flightVars, attVars, euVars, repoVars, genVars>>

\* self.last_state_change_at = now, and the method returns
AssignStamp(c) ==
    /\ callers[c].pc = "stamp"
    /\ raceTicket' = [raceTicket EXCEPT !.last_state_change_at = callers[c].now]
    /\ callers' = [callers EXCEPT ![c].pc = "done", ![c].result = "ok"]
    /\ UNCHANGED exclusive
    /\ UNCHANGED <<ticketVars, liveVars, authVars, chainVars, replayVars,
                   regVars, flightVars, attVars, euVars, repoVars, genVars>>

(***************************************************************************)
(* EventRepository: one log file per flight id, one JSON line per event.   *)
(*                                                                         *)
(* A value is a record [kind, value]: kind "str" or "dict" for what JSON   *)
(* holds, "FlightId" or "TicketNumber" for the identifier objects, and     *)
(* "absent" for a field an event class does not have.  An event is its     *)
(* class name and its fields; a datetime is a reading [t, aware] and its   *)
(* ISO text is [t, offset], with offset "" for a naive one.                *)
(***************************************************************************)
MaxSaves == 2

Absent == [kind |-> "absent", value |-> ""]

\* FlightId(value), TicketNumber(value)
FlightId(value) == [kind |-> "FlightId", value |-> value]

TicketNumber(value) == [kind |-> "TicketNumber", value |-> value]

\* _EVENT_TYPES
EVENT_TYPES ==
    {"TicketIssued", "TicketPaid", "TicketCheckedIn", "TicketBoarded",
     "TicketClosed"}

\* occurred_at values of the events saved
OccurredAts ==
    {[t |-> 1, aware |-> TRUE], [t |-> 2, aware |-> TRUE], [t |-> 1, aware |-> FALSE]}

\* The dataclass events a caller saves: the five ticket events, and
\* FlightStatusChanged (flight_id: str, old_status and new_status as `other`)
RepoEvents(flight_id) ==
    {[name |-> "TicketIssued", occurred_at |-> at,
      ticket_number |-> TicketNumber("TCK-1"), flight_id |-> FlightId(flight_id),
      other |-> Absent] : at \in OccurredAts}
    \cup {[name |-> n, occurred_at |-> at,
           ticket_number |-> TicketNumber("TCK-1"), flight_id |-> Absent,
           other |-> Absent] :
            n \in EVENT_TYPES \ {"TicketIssued"}, at \in OccurredAts}
    \cup {[name |-> "FlightStatusChanged", occurred_at |-> at,
           ticket_number |-> Absent,
           flight_id |-> [kind |-> "str", value |-> flight_id],
           other |-> [kind |-> "str", value |-> "SCHEDULED->CANCELLED"]] :
            at \in OccurredAts}

\* dataclasses.asdict on a field: an identifier object becomes a dict
asdict(v) ==
    IF v.kind \in {"FlightId", "TicketNumber"}
    THEN [kind |-> "dict", value |-> v.value]
    ELSE v

\* datetime.isoformat and datetime.fromisoformat
isoformat(dt) == [t |-> dt.t, offset |-> IF dt.aware THEN "+00:00" ELSE ""]

fromisoformat(text) == [t |-> text.t, aware |-> text.offset # ""]

\* occurred_at.replace(tzinfo=timezone.utc) when tzinfo is None
AsUTC(dt) == IF dt.aware THEN dt ELSE [dt EXCEPT !.aware = TRUE]

\* The record save writes for an event
RecordOf(event) ==
    [event_name |-> event.name,
     payload |-> [occurred_at |-> isoformat(AsUTC(event.occurred_at)),
                  ticket_number |-> asdict(event.ticket_number),
                  flight_id |-> asdict(event.flight_id),
                  other |-> asdict(event.other)]]

\* A save that opens the log for writing.
EventRepository_save_Truncates(files, flight_id, event) ==
    [files EXCEPT ![flight_id] = <<RecordOf(event)>>]

\* EventRepository.save(flight_id, event): the log files afterwards
EventRepository_save(files, flight_id, event) ==
    [files EXCEPT ![flight_id] = Append(@, RecordOf(event))]

\* "convert identifiers back": a dict or a str becomes the identifier
ToIdentifier(v, kind) ==
    IF v.kind \in {"dict", "str"} THEN [kind |-> kind, value |-> v.value] ELSE v

\* The fields each event class takes (occurred_at has a default)
FieldsOf(name) ==
    IF name = "TicketIssued" THEN {"ticket_number", "flight_id"}
    ELSE {"ticket_number"}

Present(payload) ==
    {k \in {"ticket_number", "flight_id", "other"} : payload[k] # Absent}

\* The event load_stream builds from one record, as a sequence: empty when
\* the name is unknown or cls(**payload) raises TypeError
EventOf(record) ==
    LET payload == [occurred_at |-> AsUTC(fromisoformat(record.payload.occurred_at)),
                    ticket_number |-> ToIdentifier(record.payload.ticket_number,
                                                   "TicketNumber"),
                    flight_id |-> ToIdentifier(record.payload.flight_id, "FlightId"),
                    other |-> record.payload.other]
    IN  IF record.event_name \notin EVENT_TYPES THEN <<>>
        ELSE IF Present(payload) # FieldsOf(record.event_name) THEN <<>>
        ELSE <<[name |-> record.event_name, occurred_at |-> payload.occurred_at,
                ticket_number |-> payload.ticket_number,
                flight_id |-> payload.flight_id, other |-> payload.other]>>

RECURSIVE EventsOf(_)
EventsOf(lines) ==
    IF lines = <<>> THEN <<>> ELSE EventOf(Head(lines)) \o EventsOf(Tail(lines))

\* EventRepository.load_stream(flight_id)
EventRepository_load_stream(files, flight_id) == EventsOf(files[flight_id])

\* saved: the events given to save so far, per flight id
NoRepoCall ==
    [op |-> "none", flight_id |-> "none", loaded |-> <<>>, saves |-> 0,
     saved |-> [f \in FlightIds |-> <<>>]]

Save ==
    /\ repoCall.saves < MaxSaves
    /\ \E f \in FlightIds :
         \E event \in RepoEvents(f) :
            /\ logs' = EventRepository_save(logs, f, event)
            /\ repoCall' = [op |-> "save", flight_id |-> f, loaded |-> <<>>,
                            saves |-> repoCall.saves + 1,
                            saved |-> [repoCall.saved EXCEPT
                                         ![f] = Append(@, event)]]
    /\ UNCHANGED <<ticketVars, liveVars, authVars, chainVars, replayVars,
                   regVars, flightVars, attVars, euVars, raceVars, genVars>>

LoadStream ==
    /\ \E f \in FlightIds :
         repoCall' = [repoCall EXCEPT
                        !.op = "load", !.flight_id = f,
                        !.loaded = EventRepository_load_stream(logs, f)]
    /\ UNCHANGED logs
    /\ UNCHANGED <<ticketVars, liveVars, authVars, chainVars, replayVars,
                   regVars, flightVars, attVars, euVars, raceVars, genVars>>

(***************************************************************************)
(* replay (application/replay.py): a generator over recorded events.      *)
(* An event here carries a recorded_at instant, the one attribute the     *)
(* generator reads; until is an instant or is not given.  The generator   *)
(* runs one step per item asked of it.                                    *)
(***************************************************************************)
MaxReplay == 3

RecordedEventTypes == {"issued", "paid"}

RecordedEvents == [event_type : RecordedEventTypes, recorded_at : Times]

RECURSIVE ReplaySeqs(_)
ReplaySeqs(n) ==
    IF n = 0 THEN {<<>>}
    ELSE LET shorter == ReplaySeqs(n - 1)
         IN  shorter \cup {Append(q, e) : q \in {x \in shorter : Len(x) = n - 1},
                                           e \in RecordedEvents}

NoUntil == [given |-> FALSE, at |-> 0]

Until(t) == [given |-> TRUE, at |-> t]

Untils == {NoUntil} \cup {Until(t) : t \in Times}

\* until=None is falsy, an instant is truthy
truthy(until) == until.given

replay_breaks_Never(recorded, until) == FALSE

\* if until and recorded.recorded_at > until: break
replay_breaks(recorded, until) ==
    truthy(until) /\ recorded.recorded_at > until.at

NoGenCall ==
    [called |-> FALSE, recorded_events |-> <<>>, until |-> NoUntil,
     pos |-> 0, yielded |-> <<>>, done |-> FALSE]

\* replay(recorded_events, until): the generator is created, nothing runs;
\* a behaviour follows one generator, calls sharing no state
Replay ==
    /\ ~genCall.called
    /\ \E evs \in ReplaySeqs(MaxReplay), u \in Untils :
         genCall' = [called |-> TRUE, recorded_events |-> evs, until |-> u,
                     pos |-> 0, yielded |-> <<>>, done |-> FALSE]
    /\ UNCHANGED <<ticketVars, liveVars, authVars, chainVars, replayVars,
                   regVars, flightVars, attVars, euVars, raceVars, repoVars>>

\* next(generator): the loop takes the next event and breaks or yields it;
\* past the last event, and after a break, the generator is finished
NextItem ==
    /\ genCall.called
    /\ ~genCall.done
    /\ IF genCall.pos = Len(genCall.recorded_events)
       THEN genCall' = [genCall EXCEPT !.done = TRUE]
       ELSE LET recorded == genCall.recorded_events[genCall.pos + 1]
            IN  IF replay_breaks(recorded, genCall.until)
                THEN genCall' = [genCall EXCEPT !.done = TRUE]
                ELSE genCall' = [genCall EXCEPT
                                   !.pos = genCall.pos + 1,
                                   !.yielded = Append(genCall.yielded, recorded)]
    /\ UNCHANGED <<ticketVars, liveVars, authVars, chainVars, replayVars,
                   regVars, flightVars, attVars, euVars, raceVars, repoVars>>

(***************************************************************************)
(* Idle values of the components.                                          *)
(***************************************************************************)
NoLiveCall == [op |-> "none", from |-> "none"]

TicketIdle == ticket = NoTicket /\ lastCall = NoCall

LiveIdle == liveTicket = LiveTicket_init /\ liveLast = NoLiveCall

NoAuthCall == [action |-> "none", actor_id |-> <<>>, role |-> "none", result |-> "none"]

AuthIdle == permissions = PERMISSIONS /\ authCall = NoAuthCall

ChainIdle ==
    stream = <<>> /\ chainCall = NoChainCall /\ writers = [w \in Writers |-> IdleWriter]

ReplayIdle == replayCall = NoReplayCall

RegIdle == regCall = NoRegCall

FlightIdle == flightObj = NoFlight /\ flightCall = NoFlightCall

AttIdle == attCall = NoAttCall

EuIdle == euCall = NoEuCall

RaceIdle == raceTicket = NoTicket /\ callers = <<>> /\ exclusive = FALSE

RepoIdle == logs = [f \in FlightIds |-> <<>>] /\ repoCall = NoRepoCall

GenIdle == genCall = NoGenCall

(***************************************************************************)
(* Specifications.                                                         *)
(***************************************************************************)
InitTicket ==
    /\ TicketIdle /\ LiveIdle /\ AuthIdle /\ ChainIdle /\ ReplayIdle /\ RegIdle
    /\ FlightIdle /\ AttIdle /\ EuIdle /\ RaceIdle /\ RepoIdle /\ GenIdle

NextTicket ==
    \/ issue
    \/ mark_paid
    \/ check_in
    \/ board
    \/ close
    \/ IssueTicketService_execute
    \/ PayTicketService_execute
    \/ CheckInService_execute
    \/ BoardService_execute
    \/ CloseService_execute

SpecTicket == InitTicket /\ [][NextTicket]_vars

InitLive ==
    /\ TicketIdle /\ LiveIdle /\ AuthIdle /\ ChainIdle /\ ReplayIdle /\ RegIdle
    /\ FlightIdle /\ AttIdle /\ EuIdle /\ RaceIdle /\ RepoIdle /\ GenIdle

NextLive ==
    \/ LiveTicket_issue
    \/ LiveTicket_pay
    \/ LiveTicket_check_in
    \/ LiveTicket_board
    \/ LiveTicket_close

SpecLive == InitLive /\ [][NextLive]_vars

InitAuth ==
    /\ TicketIdle /\ LiveIdle /\ AuthIdle /\ ChainIdle /\ ReplayIdle /\ RegIdle
    /\ FlightIdle /\ AttIdle /\ EuIdle /\ RaceIdle /\ RepoIdle /\ GenIdle

NextAuth == AssertAuthorized

SpecAuth == InitAuth /\ [][NextAuth]_vars

(***************************************************************************)
(* Properties of the ticket lifecycle.                                     *)
(***************************************************************************)
ChainSteps ==
    {<<"ISSUED", "PAID">>, <<"PAID", "CHECKED_IN">>,
     <<"CHECKED_IN", "BOARDED">>, <<"BOARDED", "CLOSED">>}

LiveChainSteps ==
    {<<"issued", "paid">>, <<"paid", "checked-in">>,
     <<"checked-in", "boarded">>, <<"boarded", "closed">>}

\* C1: after issue, every change of a ticket's state made by a lifecycle call
\* goes from a state to its immediate successor in the chain
\* ISSUED -> PAID -> CHECKED_IN -> BOARDED -> CLOSED, and nothing changes the
\* state once it is CLOSED.  Stated for both Ticket classes of the repository.
C1_StateAdvancesAlongChain ==
    [][ /\ (ticket.state # "none" /\ ticket'.state # ticket.state)
            => <<ticket.state, ticket'.state>> \in ChainSteps
        /\ (liveTicket.state # "created" /\ liveLast'.op # "issue"
              /\ liveTicket'.state # liveTicket.state)
            => <<liveTicket.state, liveTicket'.state>> \in LiveChainSteps ]_vars

\* The same property of the state-machine Ticket alone.
C1_ArchiveStateAdvancesAlongChain ==
    [][ (ticket.state # "none" /\ ticket'.state # ticket.state)
            => <<ticket.state, ticket'.state>> \in ChainSteps ]_vars

C2_Target(op) ==
    CASE op = "mark_paid" -> "PAID"
      [] op = "check_in"  -> "CHECKED_IN"
      [] op = "board"     -> "BOARDED"
      [] op = "close"     -> "CLOSED"

\* C2: a transition method called with a timezone-aware clock succeeds, sets
\* state to its target and last_state_change_at to the clock's reading when
\* (state, target) is one of the four legal single steps, and fails with
\* InvalidStateTransition for every other pair.
C2_TransitionOutcome ==
    (lastCall.op \in {"mark_paid", "check_in", "board", "close"} /\ lastCall.now.aware)
        => IF <<lastCall.from, C2_Target(lastCall.op)>> \in ChainSteps
           THEN /\ lastCall.result = "ok"
                /\ ticket.state = C2_Target(lastCall.op)
                /\ ticket.last_state_change_at = lastCall.now
           ELSE lastCall.result = "InvalidStateTransition"

\* A legal close at an instant other than the issue instant.
C2_Witness ==
    /\ lastCall.op = "close"
    /\ lastCall.from = "BOARDED"
    /\ lastCall.result = "ok"
    /\ ticket.last_state_change_at # ticket.issued_at

\* C3: a command issued by an authority whose role the permission table does
\* not permit for that command's action never changes the ticket and never
\* creates one.
C3_UnauthorizedNeverMutates ==
    [][ (/\ lastCall'.op \in DOMAIN ServiceAction
         /\ lastCall'.role \notin PERMISSIONS[ServiceAction[lastCall'.op]])
            => ticket' = ticket ]_vars

(***************************************************************************)
(* Properties of the permission enforcement.                               *)
(***************************************************************************)
C4_Permitted ==
    {<<"ISSUE_TICKET", "SYSTEM">>, <<"PAY_TICKET", "PASSENGER">>,
     <<"PAY_TICKET", "FINANCE">>, <<"CHECK_IN", "CHECKIN_AGENT">>,
     <<"BOARD", "GATE_AGENT">>, <<"CLOSE_TICKET", "SYSTEM">>,
     <<"OVERRIDE_BOARDING", "CAPTAIN">>, <<"OVERRIDE_BOARDING", "SECURITY">>}

\* C4: assert_authorized returns normally exactly when the action is
\* registered and the authority's role is in its permitted set, fails with
\* InvariantViolation otherwise (so for every role on an unregistered
\* action), and leaves the permission table as it was.
C4_FailClosed ==
    /\ DOMAIN permissions = {pair[1] : pair \in C4_Permitted}
    /\ \A a \in DOMAIN permissions, r \in AuthorityRole :
         r \in permissions[a] <=> <<a, r>> \in C4_Permitted
    /\ authCall.action # "none"
         => /\ authCall.result = "ok" <=> <<authCall.action, authCall.role>> \in C4_Permitted
            /\ authCall.result # "ok" => authCall.result = "InvariantViolation"

\* An unregistered action was refused to the role allowed to issue tickets.
C4_Witness ==
    /\ authCall.action = "ISSUE_TICKT"
    /\ authCall.role = "SYSTEM"
    /\ authCall.result = "InvariantViolation"

InitChain ==
    /\ TicketIdle /\ LiveIdle /\ AuthIdle /\ ChainIdle /\ ReplayIdle /\ RegIdle
    /\ FlightIdle /\ AttIdle /\ EuIdle /\ RaceIdle /\ RepoIdle /\ GenIdle

NextChain ==
    \/ \E w \in Writers : WriterRead(w)
    \/ \E w \in Writers : WriterAppend(w)
    \/ TamperPayload
    \/ TamperPreviousHash
    \/ DeleteEvent
    \/ SwapEvents
    \/ VerifyChain

SpecChain == InitChain /\ [][NextChain]_vars

(***************************************************************************)
(* Properties of the attestation chain.                                    *)
(***************************************************************************)
\* The hash event i must name as its predecessor's
ExpectedPrevious(events, i) ==
    IF i = 1 THEN None ELSE Some(events[i - 1].attestation.hash)

Mismatches(events) ==
    {i \in 1..Len(events) :
        events[i].attestation.previous_hash # ExpectedPrevious(events, i)}

\* C5: verify_event_chain fails exactly at the first event whose
\* previous_hash differs from the running hash (the previous event's hash,
\* None for the first event), returns normally exactly when there is no such
\* event, and leaves every event as it was.
C5_FailsAtFirstMismatch ==
    [][ chainCall'.op = "verify"
          => /\ stream' = stream
             /\ IF Mismatches(stream) = {}
                THEN chainCall'.failedAt = 0
                ELSE /\ chainCall'.failedAt \in Mismatches(stream)
                     /\ \A i \in Mismatches(stream) : chainCall'.failedAt <= i ]_vars

\* Verification failed at event 2 of a 3-event stream whose first link is
\* intact and whose third is broken as well.
C5_Witness ==
    /\ chainCall.op = "verify"
    /\ Len(stream) = 3
    /\ chainCall.failedAt = 2
    /\ Mismatches(stream) = {2, 3}

\* C6: after any single tampering step (an edited payload, a removed event,
\* two swapped events) on a stream built link by link, verify_event_chain
\* fails.
C6_TamperingDetected ==
    (/\ chainCall.verified
     /\ chainCall.tampers = 1
     /\ chainCall.tamper \in {"edit_payload", "delete", "swap"})
        => chainCall.failedAt # 0

\* C7: when two writers both read the last hash before either appends and
\* then both append, the second append is not prevented and
\* verify_event_chain fails on the resulting stream.
C7_InterleavingDetected ==
    /\ (chainCall.interleaved /\ chainCall.verified) => chainCall.failedAt # 0
    /\ \A w \in Writers :
         (writers[w].pc = "read" /\ writers[w].raced) => ENABLED WriterAppend(w)

\* Both writers read the empty stream's None, both appended, and
\* verification failed at the second event.
C7_Witness ==
    /\ chainCall.interleaved
    /\ chainCall.verified
    /\ Len(stream) = 2
    /\ stream[1].attestation.previous_hash = None
    /\ stream[2].attestation.previous_hash = None
    /\ chainCall.failedAt = 2

InitReplay ==
    /\ TicketIdle /\ LiveIdle /\ AuthIdle /\ ChainIdle /\ ReplayIdle /\ RegIdle
    /\ FlightIdle /\ AttIdle /\ EuIdle /\ RaceIdle /\ RepoIdle /\ GenIdle

NextReplay ==
    \/ LogEvent
    \/ Rehydrate

SpecReplay == InitReplay /\ [][NextReplay]_vars

(***************************************************************************)
(* Properties of replay.                                                   *)
(***************************************************************************)
\* The events whose version is not the running version plus one, the running
\* version being 0 at the start and the previous event's version after it
BadVersions(events) ==
    {i \in 1..Len(events) :
        events[i].version # (IF i = 1 THEN 0 ELSE events[i - 1].version) + 1}

\* C8: at the first event whose version is not the running version plus one,
\* replay fails at once: exactly the events before it were applied, none
\* after it, and no Ticket is returned.
C8_VersionGapFailsReplay ==
    (replayCall.ran /\ BadVersions(replayCall.events) # {})
        => /\ replayCall.result = "RuntimeError"
           /\ replayCall.returned = NoReturn
           /\ replayCall.applied + 1 \in BadVersions(replayCall.events)
           /\ \A i \in BadVersions(replayCall.events) : replayCall.applied < i

\* A list whose second event has version 3 instead of 2, with a third event
\* after it, was replayed.
C8_Witness ==
    /\ replayCall.ran
    /\ Len(replayCall.events) = 3
    /\ replayCall.events[1].version = 1
    /\ replayCall.events[2].version = 3
    /\ replayCall.applied = 1
    /\ replayCall.result = "RuntimeError"

\* C9: rehydrate fails on an empty list, and fails, returning no Ticket,
\* whenever the list holds an event whose event_type is not one of the five
\* ticket event types.
C9_UnknownEventTypeIsFatal ==
    replayCall.ran
        => /\ replayCall.events = <<>> => replayCall.result = "ValueError"
           /\ (\E i \in 1..Len(replayCall.events) :
                  replayCall.events[i].event_type \notin KnownEventTypes)
                => (replayCall.result # "ok" /\ replayCall.returned = NoReturn)

InitReg ==
    /\ TicketIdle /\ LiveIdle /\ AuthIdle /\ ChainIdle /\ ReplayIdle /\ RegIdle
    /\ FlightIdle /\ AttIdle /\ EuIdle /\ RaceIdle /\ RepoIdle /\ GenIdle

NextReg ==
    \/ ConfigureRegulation
    \/ Evaluate

SpecReg == InitReg /\ [][NextReg]_vars

(***************************************************************************)
(* Properties of the regulation engine.                                    *)
(***************************************************************************)
\* The configured positions whose regulation is effective, applies and
\* disallows
Disallowing(regulations, evaluated_at) ==
    {i \in 1..Len(regulations) :
        /\ regulations[i].effective_from <= evaluated_at
        /\ regulations[i].applies
        /\ ~regulations[i].allowed}

\* C10: when at least one applicable regulation disallows, evaluate returns
\* the result of the earliest-configured such regulation, unmodified: its
\* own obligations, prohibitions, regulation_id, law_version and
\* evaluated_at, with nothing of the other regulations merged in.
C10_FirstDisallowingWins ==
    (regCall.ran /\ Disallowing(regCall.regulations, EvaluatedAt) # {})
        => \E i \in Disallowing(regCall.regulations, EvaluatedAt) :
              /\ \A j \in Disallowing(regCall.regulations, EvaluatedAt) : i <= j
              /\ regCall.result.allowed = FALSE
              /\ regCall.result.obligations = regCall.regulations[i].obligations
              /\ regCall.result.prohibitions = regCall.regulations[i].prohibitions
              /\ regCall.result.regulation_id = regCall.regulations[i].regulation_id
              /\ regCall.result.law_version = regCall.regulations[i].law_version
              /\ regCall.result.evaluated_at = EvaluatedAt

\* An allowing regulation with obligations, then two disallowing ones: the
\* second regulation's result came back.
C10_Witness ==
    /\ regCall.ran
    /\ Len(regCall.regulations) = 3
    /\ Disallowing(regCall.regulations, EvaluatedAt) = {2, 3}
    /\ regCall.regulations[1].applies
    /\ regCall.regulations[1].effective_from <= EvaluatedAt
    /\ regCall.regulations[1].obligations # <<>>
    /\ regCall.result.regulation_id = "R2"

\* The configured positions whose regulation is effective and applies
SelectedAt(regulations, evaluated_at) ==
    {i \in 1..Len(regulations) :
        regulations[i].effective_from <= evaluated_at /\ regulations[i].applies}

\* The obligations of the selected regulations among the first n configured,
\* one regulation after the other
RECURSIVE ObligationsUpTo(_, _, _)
ObligationsUpTo(regulations, evaluated_at, n) ==
    IF n = 0 THEN <<>>
    ELSE ObligationsUpTo(regulations, evaluated_at, n - 1)
         \o (IF n \in SelectedAt(regulations, evaluated_at)
             THEN regulations[n].obligations ELSE <<>>)

RECURSIVE SelectedUpTo(_, _, _)
SelectedUpTo(regulations, evaluated_at, n) ==
    IF n = 0 THEN <<>>
    ELSE SelectedUpTo(regulations, evaluated_at, n - 1)
         \o (IF n \in SelectedAt(regulations, evaluated_at)
             THEN <<regulations[n]>> ELSE <<>>)

TransitionMethods == {"mark_paid", "check_in", "board", "close"}

\* C13 as stated: with a timezone-naive clock reading, issue() and every
\* transition method, from any ticket state, fail with InvariantViolation.
C13_NaiveClockIsInvariantViolation ==
    (lastCall.op \in TransitionMethods \cup {"issue"} /\ ~lastCall.now.aware)
        => lastCall.result = "InvariantViolation"

\* C13 amended: with a timezone-naive clock reading, issue() fails with
\* InvariantViolation; a transition method fails with InvariantViolation when
\* its target is a legal step from the ticket's state, and with
\* InvalidStateTransition when it is not.
C13_NaiveClockFails ==
    (lastCall.op \in TransitionMethods \cup {"issue"} /\ ~lastCall.now.aware)
        => lastCall.result =
             IF lastCall.op = "issue" THEN "InvariantViolation"
             ELSE IF <<lastCall.from, C2_Target(lastCall.op)>> \in ChainSteps
             THEN "InvariantViolation"
             ELSE "InvalidStateTransition"

\* A legal board refused for its naive reading.
C13_Witness ==
    /\ lastCall.op = "board"
    /\ lastCall.from = "CHECKED_IN"
    /\ ~lastCall.now.aware
    /\ lastCall.result = "InvariantViolation"
    /\ ticket.state = "CHECKED_IN"

\* C14: a transition method fails exactly on an illegal target or a naive
\* reading; when it fails state and last_state_change_at (the whole ticket)
\* are what they were before the call, and when it succeeds both are updated
\* in the same step, everything else staying as it was.
C14_NoPartialMutation ==
    [][ lastCall'.op \in TransitionMethods
          => /\ lastCall'.result # "ok"
                  <=> \/ <<ticket.state, C2_Target(lastCall'.op)>> \notin ChainSteps
                      \/ ~lastCall'.now.aware
             /\ lastCall'.result # "ok" => ticket' = ticket
             /\ lastCall'.result = "ok"
                  => ticket' = [ticket EXCEPT
                                  !.state = C2_Target(lastCall'.op),
                                  !.last_state_change_at = lastCall'.now] ]_vars

\* A legal check_in refused for its naive reading, on a ticket whose last
\* change was the payment.
C14_Witness ==
    /\ lastCall.op = "check_in"
    /\ lastCall.from = "PAID"
    /\ ~lastCall.now.aware
    /\ lastCall.result # "ok"
    /\ ticket.state = "PAID"
    /\ ticket.last_state_change_at # ticket.issued_at

(***************************************************************************)
(* Issuing against a flight.                                               *)
(***************************************************************************)
\* C15: assert_ticket_issuable fails with InvariantViolation when the
\* ticket's flight_id differs from the flight's (whatever the flight's
\* status, CANCELLED included), fails with FlightUnavailable when the ids
\* match and the flight is CANCELLED, and succeeds for every other status
\* when the ids match.  The ticket's flight_id is the command's.
C15_IdentityThenBookability ==
    (lastCall.op = "IssueTicketService" /\ lastCall.issuable # "none")
        => /\ lastCall.flight_id # lastCall.flight.flight_id
                => lastCall.issuable = "InvariantViolation"
           /\ (/\ lastCall.flight_id = lastCall.flight.flight_id
               /\ lastCall.flight.status = "CANCELLED")
                => lastCall.issuable = "FlightUnavailable"
           /\ (/\ lastCall.flight_id = lastCall.flight.flight_id
               /\ lastCall.flight.status \in
                    {"SCHEDULED", "DELAYED", "DEPARTED", "ARRIVED"})
                => lastCall.issuable = "ok"

\* A ticket for FL-1 against the CANCELLED flight FL-2.
C15_Witness ==
    /\ lastCall.op = "IssueTicketService"
    /\ lastCall.flight_id = "FL-1"
    /\ lastCall.flight = [flight_id |-> "FL-2", status |-> "CANCELLED"]
    /\ lastCall.issuable = "InvariantViolation"

\* C16: IssueTicketService.execute returns no Ticket when the flight passed
\* is CANCELLED or when the command's flight_id differs from the flight's;
\* a Ticket it returns is ISSUED with issued_at = last_state_change_at = the
\* clock's reading.
C16_NoTicketAgainstCancelled ==
    lastCall.op = "IssueTicketService"
        => /\ (\/ lastCall.flight.status = "CANCELLED"
               \/ lastCall.flight_id # lastCall.flight.flight_id)
                => (lastCall.result # "ok" /\ ticket = NoTicket)
           /\ lastCall.result # "ok" => ticket = NoTicket
           /\ lastCall.result = "ok"
                => /\ ticket.state = "ISSUED"
                   /\ ticket.flight_id = lastCall.flight_id
                   /\ ticket.issued_at = lastCall.now
                   /\ ticket.last_state_change_at = lastCall.now

\* A valid command with an aware clock refused for the CANCELLED flight it
\* names.
C16_Witness ==
    /\ lastCall.op = "IssueTicketService"
    /\ lastCall.now.aware
    /\ lastCall.flight = [flight_id |-> lastCall.flight_id, status |-> "CANCELLED"]
    /\ lastCall.result = "FlightUnavailable"
    /\ ticket = NoTicket

(***************************************************************************)
(* The Flight specification.                                               *)
(***************************************************************************)
InitFlight ==
    /\ TicketIdle /\ LiveIdle /\ AuthIdle /\ ChainIdle /\ ReplayIdle /\ RegIdle
    /\ AttIdle /\ EuIdle /\ RaceIdle /\ RepoIdle /\ GenIdle
    /\ flightObj \in {f \in NewFlights :
                     f.status \in IF f.cls = "archive" THEN ArchiveFlightStatus
                                  ELSE FlightStatus}
    /\ flightCall = NoFlightCall

NextFlight ==
    \/ delay
    \/ cancel
    \/ apply_event

SpecFlight == InitFlight /\ [][NextFlight]_vars

(***************************************************************************)
(* Properties of the Flight values.                                        *)
(***************************************************************************)
\* C17: CANCELLED is terminal: no flight operation (delay, cancel, applying
\* a FlightDelayed, FlightDeparted, FlightArrived or FlightCancelled event)
\* takes a flight whose status is CANCELLED to any other status.
C17_CancelledIsTerminal ==
    [][ flightObj.status \in {"CANCELLED", "cancelled"}
            => flightObj'.status \in {"CANCELLED", "cancelled"} ]_vars

\* C18: cancel() returns a flight with status CANCELLED and every other
\* field the receiver's; on an already CANCELLED flight it returns a flight
\* equal to the receiver, so a second cancel() in a row changes nothing.
C18_CancelIdempotent ==
    flightCall.op = "cancel"
        => /\ flightObj.status = "CANCELLED"
           /\ flightObj = [flightCall.before EXCEPT !.status = "CANCELLED"]
           /\ flightCall.before.status = "CANCELLED"
                => flightObj = flightCall.before
           /\ flightCall.prevOp = "cancel" => flightObj = flightCall.before

\* cancel() twice on a flight that was DEPARTED.
C18_Witness ==
    /\ flightCall.op = "cancel"
    /\ flightCall.prevOp = "cancel"
    /\ flightCall.prevBefore.status = "DEPARTED"
    /\ flightCall.before.status = "CANCELLED"
    /\ flightObj = flightCall.before

\* C19: delay(minutes) moves departure_time and arrival_time by minutes and
\* nothing else, so arrival_time - departure_time is what it was, for
\* positive, zero and negative minutes alike; and delay(a) followed by
\* delay(b) leaves the times delay(a + b) gives.
C19_DelayKeepsDuration ==
    flightCall.op = "delay"
        => /\ flightObj.departure_time =
                flightCall.before.departure_time + flightCall.minutes
           /\ flightObj.arrival_time =
                flightCall.before.arrival_time + flightCall.minutes
           /\ flightObj.arrival_time - flightObj.departure_time =
                flightCall.before.arrival_time - flightCall.before.departure_time
           /\ flightObj = [flightCall.before EXCEPT
                             !.departure_time = flightObj.departure_time,
                             !.arrival_time = flightObj.arrival_time]
           /\ flightCall.prevOp = "delay"
                => /\ flightObj.departure_time =
                        flightCall.prevBefore.departure_time
                            + (flightCall.prevMinutes + flightCall.minutes)
                   /\ flightObj.arrival_time =
                        flightCall.prevBefore.arrival_time
                            + (flightCall.prevMinutes + flightCall.minutes)
                   /\ flightObj.arrival_time - flightObj.departure_time =
                        flightCall.prevBefore.arrival_time
                            - flightCall.prevBefore.departure_time

\* A delay by a negative number of minutes after a delay by a positive one.
C19_Witness ==
    /\ flightCall.op = "delay"
    /\ flightCall.prevOp = "delay"
    /\ flightCall.prevMinutes > 0
    /\ flightCall.minutes < 0
    /\ flightObj.departure_time # flightCall.before.departure_time
    /\ flightObj.arrival_time - flightObj.departure_time = 2

(***************************************************************************)
(* The Attestation.compute specification.                                  *)
(***************************************************************************)
InitAttest ==
    /\ TicketIdle /\ LiveIdle /\ AuthIdle /\ ChainIdle /\ ReplayIdle /\ RegIdle
    /\ FlightIdle /\ AttIdle /\ EuIdle /\ RaceIdle /\ RepoIdle /\ GenIdle

NextAttest == Compute

SpecAttest == InitAttest /\ [][NextAttest]_vars

(***************************************************************************)
(* Properties of Attestation.compute.                                      *)
(***************************************************************************)
\* C20: compute returns an attestation whose hash is the digest of
\* previous_hash (of nothing when previous_hash is absent) followed by the
\* payload, and whose previous_hash is the value passed in; the same
\* arguments give the same attestation, and an absent previous_hash and an
\* empty one give the same hash.
C20_ComputeDigest ==
    attCall.last.called
        => LET c == attCall.last
               p == attCall.prev
           IN  /\ c.result.hash =
                    sha256_hexdigest(IF c.previous_hash = None THEN <<>>
                                     ELSE c.previous_hash.v, c.payload)
               /\ c.result.previous_hash = c.previous_hash
               /\ (p.called /\ p.payload = c.payload
                            /\ p.previous_hash = c.previous_hash)
                    => p.result = c.result
               /\ (p.called /\ p.payload = c.payload
                            /\ p.previous_hash = None
                            /\ c.previous_hash = Some(<<>>))
                    => /\ p.result.hash = c.result.hash
                       /\ p.result.previous_hash # c.result.previous_hash

\* The same payload attested with no previous hash and then with an empty
\* one.
C20_Witness ==
    /\ attCall.prev.called
    /\ attCall.prev.previous_hash = None
    /\ attCall.last.previous_hash = Some(<<>>)
    /\ attCall.last.payload = attCall.prev.payload
    /\ attCall.last.result.hash = attCall.prev.result.hash

(***************************************************************************)
(* The EU261Cancellation specification.                                    *)
(***************************************************************************)
InitEU261 ==
    /\ TicketIdle /\ LiveIdle /\ AuthIdle /\ ChainIdle /\ ReplayIdle /\ RegIdle
    /\ FlightIdle /\ AttIdle /\ EuIdle /\ RaceIdle /\ RepoIdle /\ GenIdle

NextEU261 == EvaluateEU261

SpecEU261 == InitEU261 /\ [][NextEU261]_vars

\* C21: EU261Cancellation applies exactly to CANCEL in the EU jurisdiction;
\* its result is allowed, without prohibitions, stamped with the
\* evaluated_at passed in; its obligations are (PAY_COMPENSATION,
\* OFFER_REBOOKING) at three hours of delay or more and none below.
C21_EU261Cancellation ==
    euCall.called
        => /\ euCall.applies
                <=> (euCall.action = "CANCEL" /\ euCall.jurisdiction = "EU")
           /\ euCall.result.allowed = TRUE
           /\ euCall.result.prohibitions = <<>>
           /\ euCall.result.evaluated_at = euCall.evaluated_at
           /\ euCall.delay_hours >= 3
                => euCall.result.obligations =
                     <<"PAY_COMPENSATION", "OFFER_REBOOKING">>
           /\ euCall.delay_hours < 3 => euCall.result.obligations = <<>>

\* A cancellation in the EU with exactly three hours of delay.
C21_Witness ==
    /\ euCall.called
    /\ euCall.applies
    /\ euCall.delay_hours = 3
    /\ euCall.evaluated_at > 0
    /\ Len(euCall.result.obligations) = 2

(***************************************************************************)
(* The ticket chain as an order.  SpecTicketFair runs the aggregate's own  *)
(* methods and adds what the claim supposes of the caller: a call that     *)
(* would succeed is eventually made.                                       *)
(***************************************************************************)
NextTicketMethods ==
    \/ issue
    \/ mark_paid
    \/ check_in
    \/ board
    \/ close

\* A transition method call that succeeds
LegalStep ==
    /\ \/ mark_paid
       \/ check_in
       \/ board
       \/ close
    /\ lastCall'.result = "ok"

SpecTicketFair ==
    InitTicket /\ [][NextTicketMethods]_vars /\ WF_vars(LegalStep)

C22_Order ==
    /\ \A i, j \in 1..Len(lastCall.entered) :
         i # j => lastCall.entered[i] # lastCall.entered[j]
    /\ \A i \in 1..Len(lastCall.entered) :
         lastCall.entered[i] \in {"PAID", "CHECKED_IN", "BOARDED", "CLOSED"}
    /\ Len(lastCall.entered) <= 4
    /\ (lastCall.from = "CLOSED" /\ lastCall.op \in TransitionMethods)
            => (lastCall.result # "ok" /\ ticket.state = "CLOSED")

\* C22: the ticket chain has no cycle and no back-edge: a ticket enters
\* each of PAID, CHECKED_IN, BOARDED, CLOSED at most once, makes at most four
\* successful transitions after issue, reaches CLOSED when the next legal
\* transition keeps being invoked, and every transition call on a CLOSED
\* ticket fails.
C22_ChainIsStrictOrder ==
    /\ []C22_Order
    /\ (ticket.state \in TicketStates) ~> (ticket.state = "CLOSED")

\* A ticket taken through its four transitions, then refused a fifth call.
C22_Witness ==
    /\ ticket.state = "CLOSED"
    /\ lastCall.entered = <<"PAID", "CHECKED_IN", "BOARDED", "CLOSED">>
    /\ lastCall.op = "mark_paid"
    /\ lastCall.from = "CLOSED"
    /\ lastCall.now.aware
    /\ lastCall.result = "InvalidStateTransition"

(***************************************************************************)
(* The specification of two callers on one ticket.                         *)
(***************************************************************************)
InitRace ==
    /\ TicketIdle /\ LiveIdle /\ AuthIdle /\ ChainIdle /\ ReplayIdle /\ RegIdle
    /\ FlightIdle /\ AttIdle /\ EuIdle /\ RepoIdle /\ GenIdle
    /\ raceTicket \in RaceTickets
    /\ callers = [c \in Callers |-> IdleCaller]
    /\ exclusive \in BOOLEAN

NextRace ==
    \/ \E c \in Callers : Begin(c)
    \/ \E c \in Callers : AssertTransition(c)
    \/ \E c \in Callers : ReadClock(c)
    \/ \E c \in Callers : AssignState(c)
    \/ \E c \in Callers : AssignStamp(c)

SpecRace == InitRace /\ [][NextRace]_vars

\* Both callers have returned from the same transition method
C23_BothReturned(c, d) ==
    /\ c # d
    /\ callers[c].pc = "done"
    /\ callers[d].pc = "done"
    /\ callers[c].method = callers[d].method

\* C23 as stated: when two callers of the same transition method interleave
\* so that both run assert_transition before either assigns the state, both
\* calls return successfully; with one mutator at a time the second call
\* fails with InvalidStateTransition.
C23_RaceAcceptsTwice ==
    \A c, d \in Callers :
        C23_BothReturned(c, d)
            => /\ callers[d].raced
                    => (callers[c].result = "ok" /\ callers[d].result = "ok")
               /\ (exclusive /\ callers[d].after)
                    => callers[d].result = "InvalidStateTransition"

\* C23 amended: the same, for callers whose clocks return timezone-aware
\* instants.
C23_RaceAcceptsTwiceAware ==
    \A c, d \in Callers :
        (C23_BothReturned(c, d) /\ callers[c].now.aware /\ callers[d].now.aware)
            => /\ callers[d].raced
                    => /\ callers[c].result = "ok"
                       /\ callers[d].result = "ok"
                       /\ raceTicket.state = MethodTarget[callers[c].method]
               /\ (exclusive /\ callers[d].after)
                    => callers[d].result = "InvalidStateTransition"

\* mark_paid accepted twice on one ISSUED ticket.
C23_Witness ==
    /\ ~exclusive
    /\ callers["c1"].method = "mark_paid"
    /\ callers["c2"].method = "mark_paid"
    /\ callers["c2"].raced
    /\ callers["c1"].result = "ok"
    /\ callers["c2"].result = "ok"
    /\ callers["c1"].now # callers["c2"].now
    /\ raceTicket.state = "PAID"

(***************************************************************************)
(* Replay and the lifecycle order.                                         *)
(***************************************************************************)
\* The state each ticket event's type stands for
C24_StateOf(event_type) ==
    CASE event_type = "TicketIssued"    -> "ISSUED"
      [] event_type = "TicketPaid"      -> "PAID"
      [] event_type = "TicketCheckedIn" -> "CHECKED_IN"
      [] event_type = "TicketBoarded"   -> "BOARDED"
      [] event_type = "TicketClosed"    -> "CLOSED"
      [] OTHER                          -> "none"

\* C24: rehydrate never consults the ticket state machine: a non-empty list
\* of ticket events with contiguous versions is replayed without an error
\* whatever the order of its event types, each event applying its state
\* change in list order (so the ticket returned is in the state of the last
\* event).
C24_ReplayTrustsLog ==
    (/\ replayCall.ran
     /\ replayCall.events # <<>>
     /\ BadVersions(replayCall.events) = {}
     /\ \A i \in 1..Len(replayCall.events) :
          replayCall.events[i].event_type \in KnownEventTypes)
        => /\ replayCall.result = "ok"
           /\ replayCall.applied = Len(replayCall.events)
           /\ replayCall.returned.state =
                C24_StateOf(replayCall.events[Len(replayCall.events)].event_type)

(***************************************************************************)
(* The command services against the state machine.                         *)
(***************************************************************************)
\* The one state from which each service's transition is legal
C25_LegalFrom(service) ==
    CASE service = "PayTicketService" -> "ISSUED"
      [] service = "CheckInService"   -> "PAID"
      [] service = "BoardService"     -> "CHECKED_IN"
      [] service = "CloseService"     -> "BOARDED"

\* C25: in every ticket state, each of PayTicketService, CheckInService,
\* BoardService and CloseService passes its own state check exactly when
\* the aggregate's transition is legal, so the aggregate never raises
\* InvalidStateTransition behind a guard, and when the guard rejects the
\* ticket (state and last_state_change_at) is as it was.
C25_GuardsAgreeWithStateMachine ==
    [][ lastCall'.op \in {"PayTicketService", "CheckInService",
                          "BoardService", "CloseService"}
          => /\ lastCall'.result # "ValueError"
                  <=> /\ ticket.state = C25_LegalFrom(lastCall'.op)
                      /\ <<ticket.state, C2_Target(ServiceMethod[lastCall'.op])>>
                            \in ChainSteps
             /\ <<ticket.state, C2_Target(ServiceMethod[lastCall'.op])>> \in ChainSteps
                  => lastCall'.result # "ValueError"
             /\ lastCall'.result # "InvalidStateTransition"
             /\ lastCall'.result = "ValueError" => ticket' = ticket ]_vars

\* CheckInService accepted on a PAID ticket.
C25_Witness ==
    /\ lastCall.op = "CheckInService"
    /\ lastCall.from = "PAID"
    /\ lastCall.result = "ok"
    /\ ticket.state = "CHECKED_IN"

(***************************************************************************)
(* What the transition methods leave alone.                                *)
(***************************************************************************)
\* C26: a transition method, whether it succeeds or fails, leaves
\* ticket_number, flight_id, passenger_id and issued_at as they were, so
\* after any sequence of calls they hold what issue() set.
C26_IdentityFieldsKept ==
    [][ (ticket.state # "none"
           /\ lastCall'.op \in TransitionMethods \cup DOMAIN ServiceMethod)
          => /\ ticket'.ticket_number = ticket.ticket_number
             /\ ticket'.flight_id = ticket.flight_id
             /\ ticket'.passenger_id = ticket.passenger_id
             /\ ticket'.issued_at = ticket.issued_at ]_vars

\* A ticket boarded at an instant later than its issue.
C26_Witness ==
    /\ lastCall.op = "board"
    /\ lastCall.result = "ok"
    /\ lastCall.entered = <<"PAID", "CHECKED_IN", "BOARDED">>
    /\ ticket.last_state_change_at.t > ticket.issued_at.t
    /\ ticket.passenger_id = <<"p", "1">>
    /\ ticket.flight_id = "FL-2"

(***************************************************************************)
(* Streams built by one writer at a time.                                  *)
(***************************************************************************)
\* C27: a stream in which every event's attestation was computed with
\* previous_hash equal to the hash of the event appended just before it
\* (None for the first) passes verify_event_chain, and so does each of its
\* prefixes, whatever its length and payloads.
C27_SingleWriterStreamVerifies ==
    (chainCall.tampers = 0 /\ ~chainCall.interleaved)
        => /\ \A k \in 0..Len(stream) :
                verify_event_chain(SubSeq(stream, 1, k)) = 0
           /\ (chainCall.verified /\ chainCall.op = "verify")
                => chainCall.failedAt = 0

\* A verified stream of three events with different payloads.
C27_Witness ==
    /\ chainCall.tampers = 0
    /\ ~chainCall.interleaved
    /\ chainCall.verified
    /\ chainCall.failedAt = 0
    /\ Len(stream) = 3
    /\ stream[1].payload # stream[2].payload
    /\ stream[3].attestation.previous_hash = Some(stream[2].attestation.hash)

(***************************************************************************)
(* What delay leaves alone.                                                *)
(***************************************************************************)
\* C28: delay(minutes) returns a new Flight and leaves the receiver as it
\* was; in the flight returned every field other than departure_time and
\* arrival_time is the receiver's, the status in particular.
C28_DelayKeepsTheRest ==
    flightCall.op = "delay"
        => /\ flightCall.receiver = flightCall.before
           /\ flightObj.status = flightCall.before.status
           /\ [flightObj EXCEPT !.departure_time = 0, !.arrival_time = 0]
                = [flightCall.before EXCEPT !.departure_time = 0,
                                            !.arrival_time = 0]

\* A CANCELLED flight delayed: the flight returned differs from the
\* receiver and is still CANCELLED.
C28_Witness ==
    /\ flightCall.op = "delay"
    /\ flightCall.minutes # 0
    /\ flightCall.before.status = "CANCELLED"
    /\ flightObj.status = "CANCELLED"
    /\ flightObj # flightCall.receiver

(***************************************************************************)
(* The EventRepository specification.                                      *)
(***************************************************************************)
InitRepo ==
    /\ TicketIdle /\ LiveIdle /\ AuthIdle /\ ChainIdle /\ ReplayIdle /\ RegIdle
    /\ FlightIdle /\ AttIdle /\ EuIdle /\ RaceIdle /\ RepoIdle /\ GenIdle

NextRepo ==
    \/ Save
    \/ LoadStream

SpecRepo == InitRepo /\ [][NextRepo]_vars

\* The ticket lifecycle events of a list, in its order
RECURSIVE C29_Lifecycle(_)
C29_Lifecycle(events) ==
    IF events = <<>> THEN <<>>
    ELSE (IF Head(events).name \in
               {"TicketIssued", "TicketPaid", "TicketCheckedIn",
                "TicketBoarded", "TicketClosed"}
          THEN <<Head(events)>> ELSE <<>>) \o C29_Lifecycle(Tail(events))

\* save appends one record to the flight's log and changes nothing else
C29_AppendOnly ==
    repoCall'.op = "save"
        => /\ Len(logs'[repoCall'.flight_id]) = Len(logs[repoCall'.flight_id]) + 1
           /\ \A i \in 1..Len(logs[repoCall'.flight_id]) :
                logs'[repoCall'.flight_id][i] = logs[repoCall'.flight_id][i]
           /\ \A f \in FlightIds \ {repoCall'.flight_id} : logs'[f] = logs[f]

\* C29: load_stream(flight_id) returns events equal by value to
\* the ticket lifecycle events saved on that flight_id, in the order they
\* were saved, without the events of other flight_ids and of other event
\* names; save only appends a record.
C29_OrderedAppendOnlyLog ==
    [][ /\ C29_AppendOnly
        /\ repoCall'.op = "load"
             => repoCall'.loaded =
                  C29_Lifecycle(repoCall'.saved[repoCall'.flight_id]) ]_vars

\* What the log does keep: order, selection and every field, with an
\* occurred_at saved without a timezone coming back as the same clock time
\* in UTC.
OrderedAppendOnlyLogUTC ==
    [][ /\ C29_AppendOnly
        /\ repoCall'.op = "load"
             => LET expected ==
                        C29_Lifecycle(repoCall'.saved[repoCall'.flight_id])
                IN  /\ Len(repoCall'.loaded) = Len(expected)
                    /\ \A i \in 1..Len(expected) :
                         repoCall'.loaded[i] =
                           [expected[i] EXCEPT !.occurred_at.aware = TRUE] ]_vars

(***************************************************************************)
(* Specification of replay.                                               *)
(***************************************************************************)
InitGen ==
    /\ TicketIdle /\ LiveIdle /\ AuthIdle /\ ChainIdle /\ ReplayIdle /\ RegIdle
    /\ FlightIdle /\ AttIdle /\ EuIdle /\ RaceIdle /\ RepoIdle /\ GenIdle

NextGen ==
    \/ Replay
    \/ NextItem

SpecGen == InitGen /\ [][NextGen]_vars

\* Where the input first holds an event recorded later than until: one
\* past its end when until is not given or no event is later.
C30_FirstLate(evs, until) ==
    LET late == {i \in 1..Len(evs) :
                   until.given /\ evs[i].recorded_at > until.at}
    IN  IF late = {} THEN Len(evs) + 1
        ELSE CHOOSE i \in late : \A j \in late : i <= j

\* C30: replay(recorded_events, until) yields a prefix of its input in input
\* order: every event before the first one whose recorded_at is later than
\* until, and then it stops, so an event stored after that one is not
\* yielded whatever its recorded_at; when until is not given it yields
\* every event.
C30_ReplayYieldsPrefix ==
    LET evs == genCall.recorded_events
        stop == C30_FirstLate(evs, genCall.until)
    IN  /\ Len(genCall.yielded) <= stop - 1
        /\ genCall.yielded = SubSeq(evs, 1, Len(genCall.yielded))
        /\ genCall.done => genCall.yielded = SubSeq(evs, 1, stop - 1)
        /\ (genCall.done /\ ~genCall.until.given) => genCall.yielded = evs

\* A finished replay whose input stores an event recorded no later than
\* until after a later-stamped one, with an event yielded before them.
C30_Witness ==
    /\ genCall.done
    /\ genCall.until.given
    /\ \E i, j \in 1..Len(genCall.recorded_events) :
         /\ 1 < i /\ i < j
         /\ genCall.recorded_events[i].recorded_at > genCall.until.at
         /\ genCall.recorded_events[j].recorded_at <= genCall.until.at
         /\ Len(genCall.yielded) = i - 1
====
